---- MODULE Spec2Model ----
(***************************************************************************)
(* Model of the concurrency patterns of demonstrateCommonPatterns and its  *)
(* helpers workerPool, process and merge (Go concurrency example).         *)
(*                                                                         *)
(* The function runs three sections that use disjoint channels: the worker *)
(* pool (jobs/results), the pipeline (numbers/squares) and the             *)
(* fan-out/fan-in (input, process x3, merge, output).  The variable        *)
(* `section` selects which one a behaviour follows; a fourth section runs  *)
(* merge alone over source streams that close independently.  The number   *)
(* of items a producer sends and the number of pool workers are inputs     *)
(* drawn from small ranges whose largest values are the program's own.     *)
(*                                                                         *)
(* Go channel semantics used throughout:                                   *)
(*  - buffered channel: a FIFO of bounded length; send blocks when full,   *)
(*    receive blocks when empty and open;                                  *)
(*  - unbuffered channel: a send completes in the same step as the receive *)
(*    that takes its value; a goroutine whose pc is "send" is blocked in   *)
(*    the send statement with its value on offer;                          *)
(*  - range over a channel ends when the channel is closed and drained;    *)
(*  - a send on a closed channel (on arriving at the send, or when the     *)
(*    channel is closed under a blocked sender), a second close and a      *)
(*    negative WaitGroup counter panic, which aborts the whole program.    *)
(***************************************************************************)
EXTENDS Integers, Sequences, FiniteSets

\* ---- bound of the inputs --------------------------------------------------
MaxSrcLen  == 4     \* merge alone: values per source stream 0..MaxSrcLen
MaxDividend == 10   \* Divide, divide: a in -MaxDividend..MaxDividend
MaxDivisor == 5     \* Divide, divide: b in -MaxDivisor..MaxDivisor
MaxAge     == 30    \* ProcessUser: Age in -MaxAge..MaxAge
MaxSleep   == 3     \* timeout demo: the sender sleeps 0..MaxSleep units
MaxCap     == 2     \* nonBlockingSend: channel capacities 0..MaxCap
MaxRetries == 3     \* retryOperation: maxRetries in -1..MaxRetries

\* ---- program constants ----------------------------------------------------
NumWorkers  == 3    \* for w := 1; w <= 3; w++   (pool sizes 1..NumWorkers)
NumJobs     == 5    \* for j := 1; j <= 5; j++   (job counts 0..NumJobs)
NumNumbers  == 5    \* for i := 1; i <= 5; i++   (pipeline lengths 0..NumNumbers)
NumInput    == 6    \* for i := 1; i <= 6; i++   (fan-out lengths 0..NumInput)
JobsCap     == 10   \* jobs := make(chan int, 10)
ResultsCap  == 10   \* results := make(chan int, 10)
NumProcess  == 3    \* worker1, worker2, worker3 := process(input)
Ch4Cap      == 3    \* ch4 := make(chan int, 3)
NumSync     == 3    \* for i := 0; i < 3; i++ { wg.Add(1); go worker(i, &wg) }
TimeoutDur  == 1    \* time.After(100 * time.Millisecond), in units of 100 ms
SleepDur    == 2    \* time.Sleep(200 * time.Millisecond) before ch4 <- "Hello"
NumReaders  == 5    \* for i := 0; i < 5; i++ { ... safeMap.Get("key") }
NumIncr     == 10   \* for i := 0; i < 10; i++ { ... counter.Increment() }

Sections == {"pool", "pipeline", "fan", "merge",
             "closed", "waitgroup", "mutex", "divide", "user",
             "timeout", "nbsend", "retry", "safediv", "panicrec", "rwmutex"}
Chans    == {"jobs", "results", "numbers", "squares", "input", "output",
             "worker1", "worker2", "worker3", "ch4"}
PoolSlots == 1..NumWorkers      \* workerPool goroutines
Sources   == 1..NumProcess      \* process goroutines = source streams of merge
Goroutines == 1..(IF NumIncr > NumSync THEN NumIncr ELSE NumSync)

VARIABLES
    section,    \* which section of demonstrateCommonPatterns runs
    n,          \* number of pool workers / of channels passed to merge
    m,          \* number of items the producer sends in this run
    srcLen,     \* merge alone: number of values each source stream emits
    mainpc,     \* position of the main goroutine
    mi,         \* main's loop counter (w, j, a; the index of merge's channel loop)
    closes,     \* per channel: number of close() calls executed
    panicked,   \* the runtime panicked
    jobs,       \* buffer of the jobs channel
    results,    \* buffer of the results channel
    wpc,        \* workerPool goroutines: "idle" (not started), "range", "send", "done"
    wval,       \* workerPool goroutines: the job j in hand
    sunk,       \* history: the values sent on the results sink, in send order
    prodpc,     \* producer goroutine: "idle", "send", "close", "done"
    prodi,      \* producer goroutine: loop variable i
    sqpc,       \* squaring stage goroutine: "idle", "range", "send", "done"
    sqval,      \* squaring stage goroutine: n in hand
    procpc,     \* process goroutines: "idle", "range", "send", "done"
    procval,    \* process goroutines: n in hand
    empc,       \* merge alone: source streams: "idle", "send", "close", "done"
    emi,        \* merge alone: index of the value a source stream offers
    wg,         \* merge: the WaitGroup counter
    fpc,        \* merge forwarders: "idle", "range", "send", "done"
    fval,       \* merge forwarders: n in hand
    fsrc,       \* merge forwarders: the channel n was received from
    cpc,        \* merge's closing goroutine: "idle", "wait", "done"
    taken,      \* history: per worker, the items it received from the shared queue
    emitted,    \* history: per source stream, the values sent on it, in send order
    recv,       \* history: per source stream, its values the consumer got from output
    got,        \* history: the values the consumer received or printed
    dequeued,   \* history: the items received from the shared queue, in receive order
    ch4,        \* closed-channel demo: buffer of ch4
    ok,         \* closed-channel demo: ok of value, ok := <-ch4 ("unset" before)
    mu,         \* Counter.mu: 0 when free, else the goroutine holding it
    value,      \* Counter.value
    gpc,        \* goroutines of the WaitGroup and Mutex demos: their position
    gtmp,       \* goroutines of the Mutex demo: the value read by c.value++
    args,       \* arguments of the function under call (Divide, divide, ProcessUser)
    ret,        \* what the function under call returned
    now,        \* timeout demo: the time elapsed, in units of 100 ms
    timer,      \* timeout demo: the timer of time.After and its channel
    readers,    \* SafeMap.mu: the goroutines holding the read lock
    data,       \* SafeMap.data: the value stored under "key", <<>> when absent
    calls,      \* retryOperation: number of calls of operation made
    err,        \* retryOperation: err, 0 for nil, k for the error of the k-th call
    panicking   \* the value of the panic being unwound, "nil" when none

cfgVars  == <<section, n, m, srcLen>>
mainVars == <<mainpc, mi>>
chanVars == <<closes, panicked>>
poolVars == <<jobs, results, wpc, wval, sunk>>
prodVars == <<prodpc, prodi>>
sqVars   == <<sqpc, sqval>>
procVars == <<procpc, procval>>
emVars   == <<empc, emi>>
fwdVars  == <<fpc, fval, fsrc>>
mrgVars  == <<wg, cpc>>
histVars == <<taken, dequeued, emitted, recv, got>>
demoVars == <<ch4, ok, mu, value, gpc, gtmp, args, ret>>
lateVars == <<now, timer, readers, data, calls, err, panicking>>

\* what the sections of demonstrateCommonPatterns leave alone
otherVars == <<cfgVars, demoVars, lateVars>>

\* what only the sections of demonstrateCommonPatterns use
patVars == <<section, n, m, srcLen, poolVars, prodVars, sqVars, procVars,
             emVars, fwdVars, cpc, taken, dequeued, emitted, recv>>

vars == <<cfgVars, mainVars, chanVars, poolVars, prodVars, sqVars, procVars,
          emVars, fwdVars, mrgVars, histVars, demoVars, lateVars>>

\* ---- channels ---------------------------------------------------------------

IsClosed(c) == closes[c] > 0

\* worker1, worker2, worker3: the channel returned by the k-th process(input)
WorkerChan(k) == <<"worker1", "worker2", "worker3">>[k]

\* a goroutine is blocked in a send statement on channel c
SenderBlocked(c) ==
    CASE c = "jobs"    -> mainpc = "send" /\ mi <= m /\ Len(jobs) >= JobsCap
      [] c = "results" -> /\ Len(results) >= ResultsCap
                          /\ \E w \in PoolSlots : wpc[w] = "send"
      [] c \in {"numbers", "input"} -> prodpc = "send"
      [] c = "squares" -> sqpc = "send"
      [] c = "output"  -> \E f \in Sources : fpc[f] = "send"
      [] c = "ch4"     -> mainpc = "send" /\ mi <= m /\ Len(ch4) >= Ch4Cap
      [] OTHER -> \E k \in Sources :
                     /\ c = WorkerChan(k)
                     /\ (procpc[k] = "send" \/ empc[k] = "send")

\* close(c): panics on an already closed channel; senders blocked on c panic
CloseChan(c) ==
    /\ closes' = [closes EXCEPT ![c] = @ + 1]
    /\ panicked' = (panicked \/ IsClosed(c) \/ SenderBlocked(c))

\* a transform that is not pure: its result also depends on how full the
\* results sink is at the moment the worker computes it
DoubleRacy(j) == j * 2 + Len(results)

\* j * 2 in workerPool
Double(j) == j * 2

\* the transform of workerPool copied into the squaring stages
SquareAsDouble(x) == x * 2

\* n * n in the squaring stage and in process
Square(x) == x * x

\* ---- worker pool (jobs, results, workerPool) ---------------------------------

\* an off-by-one loop bound that starts one worker more than asked for
PoolStartWorkerExtra ==
    /\ section = "pool" /\ ~panicked
    /\ mainpc = "start"
    /\ IF mi <= n + 1 /\ mi <= NumWorkers
         THEN /\ wpc' = [wpc EXCEPT ![mi] = "range"]
              /\ mi' = mi + 1
              /\ mainpc' = mainpc
         ELSE /\ mainpc' = "send"
              /\ mi' = 1
              /\ wpc' = wpc
    /\ UNCHANGED <<jobs, results, wval, sunk>>
    /\ UNCHANGED <<otherVars, chanVars, prodVars, sqVars, procVars, emVars,
                   fwdVars, mrgVars, histVars>>

\* for w := 1; w <= 3; w++ { go workerPool(w, jobs, results) }
PoolStartWorker ==
    /\ section = "pool" /\ ~panicked
    /\ mainpc = "start"
    /\ IF mi <= n
         THEN /\ wpc' = [wpc EXCEPT ![mi] = "range"]
              /\ mi' = mi + 1
              /\ mainpc' = mainpc
         ELSE /\ mainpc' = "send"
              /\ mi' = 1
              /\ wpc' = wpc
    /\ UNCHANGED <<jobs, results, wval, sunk>>
    /\ UNCHANGED <<otherVars, chanVars, prodVars, sqVars, procVars, emVars,
                   fwdVars, mrgVars, histVars>>

\* for j := 1; j <= 5; j++ { jobs <- j }
\* a jobs queue that hands out the newest item first: the send puts the job at
\* the front of the buffer
PoolSendJobFront ==
    /\ section = "pool" /\ ~panicked
    /\ mainpc = "send"
    /\ IF mi <= m
         THEN IF IsClosed("jobs")
                THEN /\ panicked' = TRUE
                     /\ UNCHANGED <<jobs, mi, mainpc>>
                ELSE /\ Len(jobs) < JobsCap
                     /\ jobs' = <<mi>> \o jobs
                     /\ mi' = mi + 1
                     /\ UNCHANGED <<mainpc, panicked>>
         ELSE /\ mainpc' = "close"
              /\ UNCHANGED <<jobs, mi, panicked>>
    /\ UNCHANGED <<closes, results, wpc, wval, sunk>>
    /\ UNCHANGED <<otherVars, prodVars, sqVars, procVars, emVars, fwdVars,
                   mrgVars, histVars>>

PoolSendJob ==
    /\ section = "pool" /\ ~panicked
    /\ mainpc = "send"
    /\ IF mi <= m
         THEN IF IsClosed("jobs")
                THEN /\ panicked' = TRUE
                     /\ UNCHANGED <<jobs, mi, mainpc>>
                ELSE /\ Len(jobs) < JobsCap
                     /\ jobs' = Append(jobs, mi)
                     /\ mi' = mi + 1
                     /\ UNCHANGED <<mainpc, panicked>>
         ELSE /\ mainpc' = "close"
              /\ UNCHANGED <<jobs, mi, panicked>>
    /\ UNCHANGED <<closes, results, wpc, wval, sunk>>
    /\ UNCHANGED <<otherVars, prodVars, sqVars, procVars, emVars, fwdVars,
                   mrgVars, histVars>>

\* close(jobs)
\* a main that goes on to collect the results without close(jobs)
PoolCloseJobsSkipped ==
    /\ section = "pool" /\ ~panicked
    /\ mainpc = "close"
    /\ mainpc' = "collect"
    /\ mi' = 1
    /\ UNCHANGED <<otherVars, chanVars, poolVars, prodVars, sqVars, procVars,
                   emVars, fwdVars, mrgVars, histVars>>

PoolCloseJobs ==
    /\ section = "pool" /\ ~panicked
    /\ mainpc = "close"
    /\ CloseChan("jobs")
    /\ mainpc' = "collect"
    /\ mi' = 1
    /\ UNCHANGED <<otherVars, poolVars, prodVars, sqVars, procVars, emVars,
                   fwdVars, mrgVars, histVars>>

\* for a := 1; a <= 5; a++ { <-results }
PoolCollect ==
    /\ section = "pool" /\ ~panicked
    /\ mainpc = "collect"
    /\ IF mi <= m
         THEN /\ Len(results) > 0
              /\ got' = Append(got, Head(results))
              /\ results' = Tail(results)
              /\ mi' = mi + 1
              /\ mainpc' = mainpc
         ELSE /\ mainpc' = "done"
              /\ UNCHANGED <<got, results, mi>>
    /\ UNCHANGED <<jobs, wpc, wval, sunk, taken, dequeued, emitted, recv>>
    /\ UNCHANGED <<otherVars, chanVars, prodVars, sqVars, procVars, emVars,
                   fwdVars, mrgVars>>

\* a receive that reads the head of the queue without removing it
WorkerRecvPeek(w) ==
    /\ section = "pool" /\ ~panicked
    /\ wpc[w] = "range"
    /\ Len(jobs) > 0
    /\ wval' = [wval EXCEPT ![w] = Head(jobs)]
    /\ taken' = [taken EXCEPT ![w] = Append(@, Head(jobs))]
    /\ dequeued' = Append(dequeued, Head(jobs))
    /\ jobs' = IF Len(taken[w]) = 0 THEN jobs ELSE Tail(jobs)
    /\ wpc' = [wpc EXCEPT ![w] = "send"]
    /\ UNCHANGED <<results, sunk, emitted, recv, got>>
    /\ UNCHANGED <<otherVars, mainVars, chanVars, prodVars, sqVars, procVars,
                   emVars, fwdVars, mrgVars>>

\* workerPool: for j := range jobs -- the receive of one iteration
WorkerRecv(w) ==
    /\ section = "pool" /\ ~panicked
    /\ wpc[w] = "range"
    /\ Len(jobs) > 0
    /\ wval' = [wval EXCEPT ![w] = Head(jobs)]
    /\ taken' = [taken EXCEPT ![w] = Append(@, Head(jobs))]
    /\ dequeued' = Append(dequeued, Head(jobs))
    /\ jobs' = Tail(jobs)
    /\ wpc' = [wpc EXCEPT ![w] = "send"]
    /\ UNCHANGED <<results, sunk, emitted, recv, got>>
    /\ UNCHANGED <<otherVars, mainVars, chanVars, prodVars, sqVars, procVars,
                   emVars, fwdVars, mrgVars>>

\* a worker that returns to the loop without sending the result of an even job
WorkerSendSkip(w) ==
    /\ section = "pool" /\ ~panicked
    /\ wpc[w] = "send"
    /\ IF wval[w] % 2 = 0
         THEN UNCHANGED <<results, sunk>>
         ELSE /\ Len(results) < ResultsCap
              /\ results' = Append(results, Double(wval[w]))
              /\ sunk' = Append(sunk, Double(wval[w]))
    /\ wpc' = [wpc EXCEPT ![w] = "range"]
    /\ UNCHANGED <<closes, panicked, jobs, wval>>
    /\ UNCHANGED <<otherVars, mainVars, prodVars, sqVars, procVars, emVars,
                   fwdVars, mrgVars, histVars>>

\* workerPool: results <- j * 2
WorkerSend(w) ==
    /\ section = "pool" /\ ~panicked
    /\ wpc[w] = "send"
    /\ IF IsClosed("results")
         THEN /\ panicked' = TRUE
              /\ UNCHANGED <<results, sunk, wpc>>
         ELSE /\ Len(results) < ResultsCap
              /\ results' = Append(results, Double(wval[w]))
              /\ sunk' = Append(sunk, Double(wval[w]))
              /\ wpc' = [wpc EXCEPT ![w] = "range"]
              /\ UNCHANGED panicked
    /\ UNCHANGED <<closes, jobs, wval>>
    /\ UNCHANGED <<otherVars, mainVars, prodVars, sqVars, procVars, emVars,
                   fwdVars, mrgVars, histVars>>

\* a worker that closes the results sink when it returns (defer close(results))
WorkerExitClosing(w) ==
    /\ section = "pool" /\ ~panicked
    /\ wpc[w] = "range"
    /\ Len(jobs) = 0 /\ IsClosed("jobs")
    /\ wpc' = [wpc EXCEPT ![w] = "done"]
    /\ CloseChan("results")
    /\ UNCHANGED <<jobs, results, wval, sunk>>
    /\ UNCHANGED <<otherVars, mainVars, prodVars, sqVars, procVars, emVars,
                   fwdVars, mrgVars, histVars>>

\* workerPool: the range loop ends on the closed, drained jobs channel and the
\* function returns; it closes nothing
WorkerExit(w) ==
    /\ section = "pool" /\ ~panicked
    /\ wpc[w] = "range"
    /\ Len(jobs) = 0 /\ IsClosed("jobs")
    /\ wpc' = [wpc EXCEPT ![w] = "done"]
    /\ UNCHANGED <<jobs, results, wval, sunk>>
    /\ UNCHANGED <<otherVars, mainVars, chanVars, prodVars, sqVars, procVars,
                   emVars, fwdVars, mrgVars, histVars>>

\* ---- producer goroutines (numbers, input) --------------------------------------

\* a loop bound i < 5 that closes the channel before the last item is sent
ProducerAtEarly(i) == IF i < m THEN "send" ELSE "close"

\* for i := 1; i <= 5; i++ { ch <- i }; close(ch): where the loop stands at i
ProducerAt(i) == IF i <= m THEN "send" ELSE "close"

\* the producer's blocked send of i completes and its loop advances
ProducerResume ==
    /\ prodi' = prodi + 1
    /\ prodpc' = ProducerAt(prodi + 1)

\* ---- pipeline (numbers, squares) --------------------------------------------------

\* go func() { for i := 1; i <= 5; i++ { numbers <- i }; close(numbers) }()
PipeStartProducer ==
    /\ section = "pipeline" /\ ~panicked
    /\ mainpc = "start"
    /\ prodi' = 1
    /\ prodpc' = ProducerAt(1)
    /\ mainpc' = "stage2"
    /\ UNCHANGED <<mi, otherVars, chanVars, poolVars, sqVars, procVars, emVars,
                   fwdVars, mrgVars, histVars>>

\* go func() { for n := range numbers { squares <- n * n }; close(squares) }()
PipeStartSquarer ==
    /\ section = "pipeline" /\ ~panicked
    /\ mainpc = "stage2"
    /\ sqpc' = "range"
    /\ mainpc' = "range"
    /\ UNCHANGED <<mi, sqval, otherVars, chanVars, poolVars, prodVars, procVars,
                   emVars, fwdVars, mrgVars, histVars>>

\* close(numbers)
PipeCloseNumbers ==
    /\ section = "pipeline" /\ ~panicked
    /\ prodpc = "close"
    /\ CloseChan("numbers")
    /\ prodpc' = "done"
    /\ UNCHANGED <<prodi, otherVars, mainVars, poolVars, sqVars, procVars,
                   emVars, fwdVars, mrgVars, histVars>>

\* for n := range numbers: the stage receives the i the producer offers and
\* arrives at squares <- n * n
SquarerRecv ==
    /\ section = "pipeline" /\ ~panicked
    /\ sqpc = "range"
    /\ prodpc = "send"
    /\ sqval' = prodi
    /\ sqpc' = "send"
    /\ ProducerResume
    /\ panicked' = IsClosed("squares")
    /\ UNCHANGED <<closes, otherVars, mainVars, poolVars, procVars, emVars,
                   fwdVars, mrgVars, histVars>>

\* the range loop ends on the closed numbers channel; close(squares)
SquarerClose ==
    /\ section = "pipeline" /\ ~panicked
    /\ sqpc = "range"
    /\ IsClosed("numbers") /\ prodpc # "send"
    /\ CloseChan("squares")
    /\ sqpc' = "done"
    /\ UNCHANGED <<sqval, otherVars, mainVars, poolVars, prodVars, procVars,
                   emVars, fwdVars, mrgVars, histVars>>

\* for s := range squares { fmt.Printf(...) }: main receives n * n
PipePrint ==
    /\ section = "pipeline" /\ ~panicked
    /\ mainpc = "range"
    /\ sqpc = "send"
    /\ got' = Append(got, Square(sqval))
    /\ sqpc' = "range"
    /\ UNCHANGED <<sqval, taken, dequeued, emitted, recv>>
    /\ UNCHANGED <<otherVars, mainVars, chanVars, poolVars, prodVars, procVars,
                   emVars, fwdVars, mrgVars>>

\* main's range loop ends on the closed squares channel
PipeEnd ==
    /\ section = "pipeline" /\ ~panicked
    /\ mainpc = "range"
    /\ IsClosed("squares") /\ sqpc # "send"
    /\ mainpc' = "done"
    /\ UNCHANGED <<mi, otherVars, chanVars, poolVars, prodVars, sqVars, procVars,
                   emVars, fwdVars, mrgVars, histVars>>

\* ---- fan-out (input, process) -----------------------------------------------------

\* worker1 := process(input); worker2 := process(input); worker3 := process(input)
\* each call makes the output channel and starts the goroutine
FanStartProcess ==
    /\ section = "fan" /\ ~panicked
    /\ mainpc = "start"
    /\ IF mi <= NumProcess
         THEN /\ procpc' = [procpc EXCEPT ![mi] = "range"]
              /\ mi' = mi + 1
              /\ mainpc' = mainpc
         ELSE /\ mainpc' = "merge"
              /\ mi' = 1
              /\ procpc' = procpc
    /\ UNCHANGED <<procval, otherVars, chanVars, poolVars, prodVars, sqVars,
                   emVars, fwdVars, mrgVars, histVars>>

\* go func() { for i := 1; i <= 6; i++ { input <- i }; close(input) }()
FanStartProducer ==
    /\ section = "fan" /\ ~panicked
    /\ mainpc = "producer"
    /\ prodi' = 1
    /\ prodpc' = ProducerAt(1)
    /\ mainpc' = "range"
    /\ UNCHANGED <<mi, otherVars, chanVars, poolVars, sqVars, procVars, emVars,
                   fwdVars, mrgVars, histVars>>

\* close(input)
FanCloseInput ==
    /\ section = "fan" /\ ~panicked
    /\ prodpc = "close"
    /\ CloseChan("input")
    /\ prodpc' = "done"
    /\ UNCHANGED <<prodi, otherVars, mainVars, poolVars, sqVars, procVars,
                   emVars, fwdVars, mrgVars, histVars>>

\* process: for n := range input -- worker k receives the i the producer offers
\* and arrives at output <- n * n
ProcessRecv(k) ==
    /\ section = "fan" /\ ~panicked
    /\ procpc[k] = "range"
    /\ prodpc = "send"
    /\ procval' = [procval EXCEPT ![k] = prodi]
    /\ procpc' = [procpc EXCEPT ![k] = "send"]
    /\ taken' = [taken EXCEPT ![k] = Append(@, prodi)]
    /\ dequeued' = Append(dequeued, prodi)
    /\ ProducerResume
    /\ panicked' = IsClosed(WorkerChan(k))
    /\ UNCHANGED <<closes, emitted, recv, got>>
    /\ UNCHANGED <<otherVars, mainVars, poolVars, sqVars, emVars, fwdVars,
                   mrgVars>>

\* process: the range loop ends on the closed input; defer close(output)
\* a process goroutine without its defer close(output)
ProcessExitNoClose(k) ==
    /\ section = "fan" /\ ~panicked
    /\ procpc[k] = "range"
    /\ IsClosed("input") /\ prodpc # "send"
    /\ procpc' = [procpc EXCEPT ![k] = "done"]
    /\ UNCHANGED <<procval, otherVars, mainVars, chanVars, poolVars, prodVars,
                   sqVars, emVars, fwdVars, mrgVars, histVars>>

ProcessExit(k) ==
    /\ section = "fan" /\ ~panicked
    /\ procpc[k] = "range"
    /\ IsClosed("input") /\ prodpc # "send"
    /\ CloseChan(WorkerChan(k))
    /\ procpc' = [procpc EXCEPT ![k] = "done"]
    /\ UNCHANGED <<procval, otherVars, mainVars, poolVars, prodVars, sqVars,
                   emVars, fwdVars, mrgVars, histVars>>

\* ---- source streams of the merge-alone section -----------------------------------

\* the k-th value of source stream s (distinct across streams)
EmitVal(s, k) == 10 * s + k

\* a stream that emits srcLen[s] values and then closes: where it stands at k
EmitterAt(s, k) == IF k <= srcLen[s] THEN "send" ELSE "close"

\* the stream closes its channel after its last value
EmitterClose(s) ==
    /\ section = "merge" /\ ~panicked
    /\ empc[s] = "close"
    /\ CloseChan(WorkerChan(s))
    /\ empc' = [empc EXCEPT ![s] = "done"]
    /\ UNCHANGED <<emi, otherVars, mainVars, poolVars, prodVars, sqVars,
                   procVars, fwdVars, mrgVars, histVars>>

\* ---- merge ------------------------------------------------------------------------

\* a sender is blocked on source channel s with a value on offer
SourceOffers(s) ==
    IF section = "fan" THEN procpc[s] = "send" ELSE empc[s] = "send"

SourceValue(s) ==
    IF section = "fan" THEN Square(procval[s]) ELSE EmitVal(s, emi[s])

\* the blocked send on source channel s completes
SourceResume(s) ==
    IF section = "fan"
      THEN /\ procpc' = [procpc EXCEPT ![s] = "range"]
           /\ UNCHANGED <<procval, emVars>>
      ELSE /\ emi' = [emi EXCEPT ![s] = @ + 1]
           /\ empc' = [empc EXCEPT ![s] = EmitterAt(s, emi[s] + 1)]
           /\ UNCHANGED procVars

\* go func() {...}() capturing the loop variable ch: every goroutine ranges
\* over the channel of the last iteration
ForwarderSourceCaptured(f) == n

\* go func(ch <-chan int) {...}(ch): the f-th goroutine ranges over the f-th
\* channel, which it is passed as an argument
ForwarderSource(f) == f

\* a closing goroutine that does not wait
WaitSkipped == TRUE

\* wg.Wait() returns when the counter is zero
WaitReturns == wg = 0

\* where main continues after merge returns
AfterMerge == IF section = "fan" THEN "producer" ELSE "range"

\* for _, ch := range channels { wg.Add(1); go func(ch <-chan int) {...}(ch) }
\* a merge loop that starts its forwarders without wg.Add(1)
MergeStartForwarderNoAdd ==
    /\ section \in {"fan", "merge"} /\ ~panicked
    /\ mainpc = "merge"
    /\ IF mi <= n
         THEN /\ wg' = wg
              /\ fpc' = [fpc EXCEPT ![mi] = "range"]
              /\ mi' = mi + 1
              /\ mainpc' = mainpc
         ELSE /\ mainpc' = "closer"
              /\ UNCHANGED <<wg, fpc, mi>>
    /\ UNCHANGED <<fval, fsrc, cpc, otherVars, chanVars, poolVars, prodVars,
                   sqVars, procVars, emVars, histVars>>

MergeStartForwarder ==
    /\ section \in {"fan", "merge"} /\ ~panicked
    /\ mainpc = "merge"
    /\ IF mi <= n
         THEN /\ wg' = wg + 1
              /\ fpc' = [fpc EXCEPT ![mi] = "range"]
              /\ mi' = mi + 1
              /\ mainpc' = mainpc
         ELSE /\ mainpc' = "closer"
              /\ UNCHANGED <<wg, fpc, mi>>
    /\ UNCHANGED <<fval, fsrc, cpc, otherVars, chanVars, poolVars, prodVars,
                   sqVars, procVars, emVars, histVars>>

\* merge that launches its closing goroutine only when it was given channels
MergeStartCloserNonEmpty ==
    /\ section \in {"fan", "merge"} /\ ~panicked
    /\ mainpc = "closer"
    /\ cpc' = IF n > 0 THEN "wait" ELSE cpc
    /\ mainpc' = AfterMerge
    /\ UNCHANGED <<mi, wg, otherVars, chanVars, poolVars, prodVars, sqVars,
                   procVars, emVars, fwdVars, histVars>>

\* go func() { wg.Wait(); close(output) }(); return output
MergeStartCloser ==
    /\ section \in {"fan", "merge"} /\ ~panicked
    /\ mainpc = "closer"
    /\ cpc' = "wait"
    /\ mainpc' = AfterMerge
    /\ UNCHANGED <<mi, wg, otherVars, chanVars, poolVars, prodVars, sqVars,
                   procVars, emVars, fwdVars, histVars>>

\* a forwarder whose send is non-blocking (select with default): the value it
\* received is dropped when the consumer is not ready, and it keeps ranging
ForwarderRecvLossy(f) ==
    LET s == ForwarderSource(f) IN
    /\ section \in {"fan", "merge"} /\ ~panicked
    /\ fpc[f] = "range"
    /\ SourceOffers(s)
    /\ emitted' = [emitted EXCEPT ![s] = Append(@, SourceValue(s))]
    /\ SourceResume(s)
    /\ UNCHANGED <<fpc, fval, fsrc, closes, panicked, taken, dequeued, recv, got>>
    /\ UNCHANGED <<otherVars, mainVars, poolVars, prodVars, sqVars, mrgVars>>

\* forwarder: for n := range ch -- receives the value offered on its channel and
\* arrives at output <- n
ForwarderRecv(f) ==
    LET s == ForwarderSource(f) IN
    /\ section \in {"fan", "merge"} /\ ~panicked
    /\ fpc[f] = "range"
    /\ SourceOffers(s)
    /\ fval' = [fval EXCEPT ![f] = SourceValue(s)]
    /\ fsrc' = [fsrc EXCEPT ![f] = s]
    /\ fpc' = [fpc EXCEPT ![f] = "send"]
    /\ emitted' = [emitted EXCEPT ![s] = Append(@, SourceValue(s))]
    /\ SourceResume(s)
    /\ panicked' = IsClosed("output")
    /\ UNCHANGED <<closes, taken, dequeued, recv, got>>
    /\ UNCHANGED <<otherVars, mainVars, poolVars, prodVars, sqVars, mrgVars>>

\* a forwarder that returns without calling wg.Done()
ForwarderExitNoDone(f) ==
    LET s == ForwarderSource(f) IN
    /\ section \in {"fan", "merge"} /\ ~panicked
    /\ fpc[f] = "range"
    /\ IsClosed(WorkerChan(s)) /\ ~SourceOffers(s)
    /\ fpc' = [fpc EXCEPT ![f] = "done"]
    /\ UNCHANGED <<wg, panicked>>
    /\ UNCHANGED <<closes, fval, fsrc, cpc, otherVars, mainVars, poolVars,
                   prodVars, sqVars, procVars, emVars, histVars>>

\* forwarder: the range loop ends on its closed channel; defer wg.Done()
ForwarderExit(f) ==
    LET s == ForwarderSource(f) IN
    /\ section \in {"fan", "merge"} /\ ~panicked
    /\ fpc[f] = "range"
    /\ IsClosed(WorkerChan(s)) /\ ~SourceOffers(s)
    /\ fpc' = [fpc EXCEPT ![f] = "done"]
    /\ wg' = wg - 1
    /\ panicked' = (wg - 1 < 0)
    /\ UNCHANGED <<closes, fval, fsrc, cpc, otherVars, mainVars, poolVars,
                   prodVars, sqVars, procVars, emVars, histVars>>

\* wg.Wait(); close(output)
\* a closing goroutine that closes the output only if merge was given channels
CloserCloseNonEmpty ==
    /\ section \in {"fan", "merge"} /\ ~panicked
    /\ cpc = "wait"
    /\ WaitReturns
    /\ n > 0
    /\ CloseChan("output")
    /\ cpc' = "done"
    /\ UNCHANGED <<wg, otherVars, mainVars, poolVars, prodVars, sqVars,
                   procVars, emVars, fwdVars, histVars>>

CloserClose ==
    /\ section \in {"fan", "merge"} /\ ~panicked
    /\ cpc = "wait"
    /\ WaitReturns
    /\ CloseChan("output")
    /\ cpc' = "done"
    /\ UNCHANGED <<wg, otherVars, mainVars, poolVars, prodVars, sqVars,
                   procVars, emVars, fwdVars, histVars>>

\* for result := range output { fmt.Printf(...) }: main receives the value
\* forwarder f offers
ConsumerRecv(f) ==
    /\ section \in {"fan", "merge"} /\ ~panicked
    /\ mainpc = "range"
    /\ fpc[f] = "send"
    /\ recv' = [recv EXCEPT ![fsrc[f]] = Append(@, fval[f])]
    /\ fpc' = [fpc EXCEPT ![f] = "range"]
    /\ UNCHANGED <<fval, fsrc, taken, dequeued, emitted, got>>
    /\ UNCHANGED <<otherVars, mainVars, chanVars, poolVars, prodVars, sqVars,
                   procVars, emVars, mrgVars>>

\* main's range loop ends on the closed output
ConsumerEnd ==
    /\ section \in {"fan", "merge"} /\ ~panicked
    /\ mainpc = "range"
    /\ IsClosed("output") /\ ~SenderBlocked("output")
    /\ mainpc' = "done"
    /\ UNCHANGED <<mi, otherVars, chanVars, poolVars, prodVars, sqVars, procVars,
                   emVars, fwdVars, mrgVars, histVars>>

\* ---- initial states -------------------------------------------------------------------

\* ---------------------------------------------------------------------------
\* demonstrateChannels, "Closed channel": main alone fills, closes, ranges over
\* and then checks the buffered channel ch4.
\* ---------------------------------------------------------------------------

\* ch4 <- 1; ch4 <- 2; ch4 <- 3   (a send blocks while the buffer is full)
ClosedSend ==
    /\ section = "closed" /\ ~panicked
    /\ mainpc = "send" /\ mi <= m
    /\ Len(ch4) < Ch4Cap
    /\ IF IsClosed("ch4")
         THEN panicked' = TRUE /\ ch4' = ch4
         ELSE panicked' = panicked /\ ch4' = Append(ch4, mi)
    /\ mi' = mi + 1
    /\ UNCHANGED <<mainpc, closes, wg, got, ok, mu, value, gpc, gtmp, args, ret,
                   patVars, lateVars>>

\* close(ch4)
ClosedClose ==
    /\ section = "closed" /\ ~panicked
    /\ mainpc = "send" /\ mi > m
    /\ CloseChan("ch4")
    /\ mainpc' = "range"
    /\ UNCHANGED <<mi, wg, got, demoVars, patVars, lateVars>>

\* for value := range ch4 { fmt.Printf(value) } -- one iteration
ClosedRangeRecv ==
    /\ section = "closed" /\ ~panicked
    /\ mainpc = "range"
    /\ ch4 # <<>>
    /\ got' = Append(got, Head(ch4))
    /\ ch4' = Tail(ch4)
    /\ UNCHANGED <<mainVars, chanVars, wg, ok, mu, value, gpc, gtmp, args, ret,
                   patVars, lateVars>>

\* a range that ends as soon as it finds the channel closed, whatever is still
\* buffered
ClosedRangeEndEarly ==
    /\ section = "closed" /\ ~panicked
    /\ mainpc = "range"
    /\ IsClosed("ch4")
    /\ mainpc' = "check"
    /\ UNCHANGED <<mi, chanVars, wg, got, demoVars, patVars, lateVars>>

\* the range loop ends: ch4 is closed and its buffer is empty
ClosedRangeEnd ==
    /\ section = "closed" /\ ~panicked
    /\ mainpc = "range"
    /\ ch4 = <<>> /\ IsClosed("ch4")
    /\ mainpc' = "check"
    /\ UNCHANGED <<mi, chanVars, wg, got, demoVars, patVars, lateVars>>

\* value, ok := <-ch4: a buffered value with ok = true, or the zero value with
\* ok = false once ch4 is closed and drained; blocks on an open, empty channel
ClosedCheck ==
    /\ section = "closed" /\ ~panicked
    /\ mainpc = "check"
    /\ ch4 # <<>> \/ IsClosed("ch4")
    /\ IF ch4 # <<>>
         THEN ret' = <<Head(ch4)>> /\ ok' = "true" /\ ch4' = Tail(ch4)
         ELSE ret' = <<0>> /\ ok' = "false" /\ ch4' = ch4
    /\ mainpc' = "done"
    /\ UNCHANGED <<mi, chanVars, wg, got, mu, value, gpc, gtmp, args, patVars, lateVars>>

\* ---------------------------------------------------------------------------
\* demonstrateSynchronization, "Mutex": n goroutines each call
\* counter.Increment() once, main waits for them and prints counter.Value().
\* mu is 0 when the mutex is free, else the goroutine holding it.
\* ---------------------------------------------------------------------------

\* a mutex whose Lock never waits
MutexIgnored == TRUE

\* c.mu.Lock() can return
MutexFree == mu = 0

\* for i := 0; i < 10; i++ { wg.Add(1); go func() {...}() }
MutexSpawn ==
    /\ section = "mutex" /\ ~panicked
    /\ mainpc = "spawn"
    /\ IF mi <= n
         THEN /\ wg' = wg + 1
              /\ gpc' = [gpc EXCEPT ![mi] = "lock"]
              /\ mi' = mi + 1
              /\ mainpc' = mainpc
         ELSE /\ mainpc' = "wait"
              /\ UNCHANGED <<wg, gpc, mi>>
    /\ UNCHANGED <<chanVars, got, ch4, ok, mu, value, gtmp, args, ret, patVars, lateVars>>

\* Increment: c.mu.Lock()
IncLock(g) ==
    /\ section = "mutex" /\ ~panicked
    /\ gpc[g] = "lock"
    /\ MutexFree
    /\ mu' = g
    /\ gpc' = [gpc EXCEPT ![g] = "read"]
    /\ UNCHANGED <<mainVars, chanVars, wg, got, ch4, ok, value, gtmp, args, ret,
                   patVars, lateVars>>

\* Increment: c.value++ -- the load of c.value
IncRead(g) ==
    /\ section = "mutex" /\ ~panicked
    /\ gpc[g] = "read"
    /\ gtmp' = [gtmp EXCEPT ![g] = value]
    /\ gpc' = [gpc EXCEPT ![g] = "write"]
    /\ UNCHANGED <<mainVars, chanVars, wg, got, ch4, ok, mu, value, args, ret,
                   patVars, lateVars>>

\* Increment: c.value++ -- the store of the loaded value plus one (the loaded
\* value is a temporary that is dead after the store)
IncWrite(g) ==
    /\ section = "mutex" /\ ~panicked
    /\ gpc[g] = "write"
    /\ value' = gtmp[g] + 1
    /\ gtmp' = [gtmp EXCEPT ![g] = 0]
    /\ gpc' = [gpc EXCEPT ![g] = "unlock"]
    /\ UNCHANGED <<mainVars, chanVars, wg, got, ch4, ok, mu, args, ret,
                   patVars, lateVars>>

\* Increment returns: the deferred c.mu.Unlock()
IncUnlock(g) ==
    /\ section = "mutex" /\ ~panicked
    /\ gpc[g] = "unlock"
    /\ mu' = 0
    /\ gpc' = [gpc EXCEPT ![g] = "return"]
    /\ UNCHANGED <<mainVars, chanVars, wg, got, ch4, ok, value, gtmp, args, ret,
                   patVars, lateVars>>

\* the goroutine returns: the deferred wg.Done()
IncDone(g) ==
    /\ section = "mutex" /\ ~panicked
    /\ gpc[g] = "return"
    /\ wg' = wg - 1
    /\ panicked' = (wg - 1 < 0)
    /\ gpc' = [gpc EXCEPT ![g] = "done"]
    /\ UNCHANGED <<mainVars, closes, got, ch4, ok, mu, value, gtmp, args, ret,
                   patVars, lateVars>>

\* wg.Wait() returns
MutexWait ==
    /\ section = "mutex" /\ ~panicked
    /\ mainpc = "wait"
    /\ wg = 0
    /\ mainpc' = "value"
    /\ UNCHANGED <<mi, chanVars, wg, got, demoVars, patVars, lateVars>>

\* fmt.Printf(counter.Value()): Lock, read c.value, deferred Unlock
CounterValue ==
    /\ section = "mutex" /\ ~panicked
    /\ mainpc = "value"
    /\ MutexFree
    /\ got' = <<value>>
    /\ mainpc' = "done"
    /\ UNCHANGED <<mi, chanVars, wg, demoVars, patVars, lateVars>>

\* ---------------------------------------------------------------------------
\* "Goroutine with WaitGroup" (demonstrateGoroutines, m = 0: the body is one
\* Printf) and "WaitGroup" (demonstrateSynchronization, m = 1: the body is
\* worker's Printf, Sleep, Printf): main starts n goroutines, each registered
\* with wg.Add(1) before its go statement, and waits for them.
\* ---------------------------------------------------------------------------

\* a loop that registers only its first goroutine with the WaitGroup
SyncSpawnAddOnce ==
    /\ section = "waitgroup" /\ ~panicked
    /\ mainpc = "spawn"
    /\ IF mi <= n
         THEN /\ wg' = IF mi = 1 THEN wg + 1 ELSE wg
              /\ gpc' = [gpc EXCEPT ![mi] = "start"]
              /\ mi' = mi + 1
              /\ mainpc' = mainpc
         ELSE /\ mainpc' = "wait"
              /\ UNCHANGED <<wg, gpc, mi>>
    /\ UNCHANGED <<chanVars, got, ch4, ok, mu, value, gtmp, args, ret, patVars, lateVars>>

\* for i := 0; i < 3; i++ { wg.Add(1); go worker(i, &wg) }
SyncSpawn ==
    /\ section = "waitgroup" /\ ~panicked
    /\ mainpc = "spawn"
    /\ IF mi <= n
         THEN /\ wg' = wg + 1
              /\ gpc' = [gpc EXCEPT ![mi] = "start"]
              /\ mi' = mi + 1
              /\ mainpc' = mainpc
         ELSE /\ mainpc' = "wait"
              /\ UNCHANGED <<wg, gpc, mi>>
    /\ UNCHANGED <<chanVars, got, ch4, ok, mu, value, gtmp, args, ret, patVars, lateVars>>

\* the goroutine's first Printf: the whole body of the anonymous goroutine,
\* or "Worker %d starting" followed by worker's Sleep
WorkerBegin(g) ==
    /\ section = "waitgroup" /\ ~panicked
    /\ gpc[g] = "start"
    /\ gpc' = [gpc EXCEPT ![g] = IF m = 0 THEN "return" ELSE "sleep"]
    /\ UNCHANGED <<mainVars, chanVars, wg, got, ch4, ok, mu, value, gtmp, args,
                   ret, patVars, lateVars>>

\* worker: the Sleep is over, "Worker %d done" is printed
WorkerWake(g) ==
    /\ section = "waitgroup" /\ ~panicked
    /\ gpc[g] = "sleep"
    /\ gpc' = [gpc EXCEPT ![g] = "return"]
    /\ UNCHANGED <<mainVars, chanVars, wg, got, ch4, ok, mu, value, gtmp, args,
                   ret, patVars, lateVars>>

\* the goroutine returns: the deferred wg.Done()
WorkerDone(g) ==
    /\ section = "waitgroup" /\ ~panicked
    /\ gpc[g] = "return"
    /\ wg' = wg - 1
    /\ panicked' = (wg - 1 < 0)
    /\ gpc' = [gpc EXCEPT ![g] = "done"]
    /\ UNCHANGED <<mainVars, closes, got, ch4, ok, mu, value, gtmp, args, ret,
                   patVars, lateVars>>

\* wg.Wait() returns; "All workers completed" is printed
SyncWait ==
    /\ section = "waitgroup" /\ ~panicked
    /\ mainpc = "wait"
    /\ WaitReturns
    /\ mainpc' = "done"
    /\ got' = <<"completed">>
    /\ UNCHANGED <<mi, chanVars, wg, demoVars, patVars, lateVars>>

\* ---------------------------------------------------------------------------
\* Divide and ProcessUser (05-testing/main_test.go), divide (the error-handling
\* demo): pure functions, called once on arguments drawn in Init.
\* ---------------------------------------------------------------------------

Abs(x) == IF x < 0 THEN -x ELSE x

RECURSIVE Gcd(_, _)
Gcd(x, y) == IF y = 0 THEN x ELSE Gcd(y, x % y)

\* a / b on float64, for b # 0: the quotient as the fraction <<num, den>> in
\* lowest terms with den > 0 (the rounding of the float64 result to the
\* nearest representable value is not modelled)
Quotient(a, b) ==
    LET g == Gcd(Abs(a), Abs(b))
        s == IF b < 0 THEN -1 ELSE 1
    IN <<(s * a) \div g, Abs(b) \div g>>

\* a / b on int, for b # 0: Go truncates the quotient toward zero
TruncDiv(a, b) ==
    LET q == Abs(a) \div Abs(b)
    IN IF (a < 0) = (b < 0) THEN q ELSE -q

\* a Divide that also refuses negative divisors
DivideNonPositive(a, b) ==
    IF b <= 0
      THEN [fn |-> "Divide", result |-> <<0, 1>>, err |-> "division by zero"]
      ELSE [fn |-> "Divide", result |-> Quotient(a, b), err |-> "nil"]

\* func Divide(a, b float64) (float64, error)
Divide(a, b) ==
    IF b = 0
      THEN [fn |-> "Divide", result |-> <<0, 1>>, err |-> "division by zero"]
      ELSE [fn |-> "Divide", result |-> Quotient(a, b), err |-> "nil"]

\* func divide(a, b int) (int, error)
divide(a, b) ==
    IF b = 0
      THEN [fn |-> "divide", result |-> 0, err |-> "division by zero"]
      ELSE [fn |-> "divide", result |-> TruncDiv(a, b), err |-> "nil"]

\* result, err := Divide(a, b)
CallDivide ==
    /\ section = "divide" /\ ~panicked
    /\ mainpc = "call"
    /\ ret' = Divide(args[1], args[2])
    /\ mainpc' = "done"
    /\ UNCHANGED <<mi, chanVars, wg, got, ch4, ok, mu, value, gpc, gtmp, args,
                   patVars, lateVars>>

\* result, err := divide(a, b)
CallDivideInt ==
    /\ section = "divide" /\ ~panicked
    /\ mainpc = "call"
    /\ ret' = divide(args[1], args[2])
    /\ mainpc' = "done"
    /\ UNCHANGED <<mi, chanVars, wg, got, ch4, ok, mu, value, gpc, gtmp, args,
                   patVars, lateVars>>

\* a ProcessUser that also refuses the age 0
ProcessUserRejectZero(user) ==
    IF user.Age <= 0
      THEN [result |-> [Name |-> "", Age |-> 0, Status |-> ""],
            err |-> "invalid age"]
      ELSE [result |-> [Name |-> user.Name, Age |-> user.Age,
                        Status |-> "active"],
            err |-> "nil"]

\* func ProcessUser(user User) (ProcessedUser, error); ProcessedUser{} is the
\* zero value: empty strings and age 0
ProcessUser(user) ==
    IF user.Age < 0
      THEN [result |-> [Name |-> "", Age |-> 0, Status |-> ""],
            err |-> "invalid age"]
      ELSE [result |-> [Name |-> user.Name, Age |-> user.Age,
                        Status |-> "active"],
            err |-> "nil"]

\* result, err := ProcessUser(tt.user)
CallProcessUser ==
    /\ section = "user" /\ ~panicked
    /\ mainpc = "call"
    /\ ret' = ProcessUser(args)
    /\ mainpc' = "done"
    /\ UNCHANGED <<mi, chanVars, wg, got, ch4, ok, mu, value, gpc, gtmp, args,
                   patVars, lateVars>>

\* ---------------------------------------------------------------------------
\* demonstrateSelect, "Select with timeout": a goroutine sleeps and then sends
\* "Hello" on the unbuffered ch4 while main selects between a receive from ch4
\* and time.After.  Sleep and the timer last at least their duration; time is
\* counted in units of 100 ms up to MaxTime.  n = 0 is a channel nobody sends
\* on (the README's operationWithTimeout).
\* ---------------------------------------------------------------------------

MaxTime == MaxSleep + TimeoutDur + 1

\* what the timeout demo leaves alone
timeoutFrame == <<patVars, mi, chanVars, wg, ch4, ok, mu, value, args, ret,
                  readers, data, calls, err, panicking>>

\* time passes (the count stops at MaxTime unless a sleep or a timer is still
\* to end)
Tick ==
    /\ section = "timeout"
    /\ \/ now < MaxTime
       \/ timer.armed /\ now < timer.deadline
       \/ gpc[1] = "sleep" /\ now < gtmp[1]
    /\ now' = now + 1
    /\ UNCHANGED <<mainpc, got, gpc, gtmp, timer, timeoutFrame>>

\* go func() { time.Sleep(...); ch4 <- "Hello" }()
TimeoutSpawn ==
    /\ section = "timeout"
    /\ mainpc = "go"
    /\ gpc' = [gpc EXCEPT ![1] = IF n = 1 THEN "start" ELSE @]
    /\ mainpc' = "select"
    /\ UNCHANGED <<got, gtmp, now, timer, timeoutFrame>>

\* the goroutine starts: time.Sleep begins, to end at now + m or later
SenderSleep ==
    /\ section = "timeout"
    /\ gpc[1] = "start"
    /\ gtmp' = [gtmp EXCEPT ![1] = now + m]
    /\ gpc' = [gpc EXCEPT ![1] = "sleep"]
    /\ UNCHANGED <<mainpc, got, now, timer, timeoutFrame>>

\* a ch4 with a buffer of one: the send completes without a receiver
SenderWakeBuffered ==
    /\ section = "timeout"
    /\ gpc[1] = "sleep"
    /\ now >= gtmp[1]
    /\ gpc' = [gpc EXCEPT ![1] = "done"]
    /\ UNCHANGED <<mainpc, got, gtmp, now, timer, timeoutFrame>>

\* time.Sleep returns; the goroutine is at ch4 <- "Hello", blocked until a
\* receiver takes the value
SenderWake ==
    /\ section = "timeout"
    /\ gpc[1] = "sleep"
    /\ now >= gtmp[1]
    /\ gpc' = [gpc EXCEPT ![1] = "send"]
    /\ UNCHANGED <<mainpc, got, gtmp, now, timer, timeoutFrame>>

\* main enters the select: time.After(100 ms) is evaluated and starts a timer
TimeoutArm ==
    /\ section = "timeout"
    /\ mainpc = "select"
    /\ timer' = [armed |-> TRUE, deadline |-> now + TimeoutDur,
                 fired |-> FALSE]
    /\ mainpc' = "wait"
    /\ UNCHANGED <<got, gpc, gtmp, now, timeoutFrame>>

\* a timer that never delivers
TimerFireNever ==
    /\ FALSE
    /\ UNCHANGED vars

\* the runtime delivers the time on the timer's channel, at the deadline or
\* later
TimerFire ==
    /\ section = "timeout"
    /\ timer.armed /\ ~timer.fired
    /\ now >= timer.deadline
    /\ timer' = [timer EXCEPT !.fired = TRUE]
    /\ UNCHANGED <<mainpc, got, gpc, gtmp, now, timeoutFrame>>

\* case msg := <-ch4: fmt.Printf(msg)
SelectRecv ==
    /\ section = "timeout"
    /\ mainpc = "wait"
    /\ gpc[1] = "send"
    /\ got' = <<"Hello">>
    /\ gpc' = [gpc EXCEPT ![1] = "done"]
    /\ mainpc' = "done"
    /\ UNCHANGED <<gtmp, now, timer, timeoutFrame>>

\* case <-time.After(...): fmt.Println("Timeout!")
SelectTimeout ==
    /\ section = "timeout"
    /\ mainpc = "wait"
    /\ timer.fired
    /\ got' = <<"Timeout!">>
    /\ mainpc' = "done"
    /\ UNCHANGED <<gpc, gtmp, now, timer, timeoutFrame>>

\* ---------------------------------------------------------------------------
\* nonBlockingSend (demonstrateAdvancedConcepts calls it on a fresh unbuffered
\* channel): called once on an open channel of capacity n with buffer ch4 and
\* possibly a receiver (goroutine 1) already waiting in a receive.
\* ---------------------------------------------------------------------------

\* what a call of nonBlockingSend leaves alone
sendFrame == <<patVars, mi, chanVars, wg, ok, mu, value, gtmp, args, lateVars>>

\* before the call another goroutine sends 7 on the channel (into its buffer:
\* no receiver is waiting)
EnvSend ==
    /\ section = "nbsend"
    /\ mainpc = "call"
    /\ gpc[1] = "idle"
    /\ Len(ch4) < n
    /\ ch4' = Append(ch4, 7)
    /\ UNCHANGED <<mainpc, got, gpc, ret, sendFrame>>

\* before the call goroutine 1 starts a receive and, the buffer being empty,
\* waits in it
EnvRecvWait ==
    /\ section = "nbsend"
    /\ mainpc = "call"
    /\ gpc[1] = "idle"
    /\ ch4 = <<>>
    /\ gpc' = [gpc EXCEPT ![1] = "recv"]
    /\ UNCHANGED <<mainpc, got, ch4, ret, sendFrame>>

\* a plain send, ch <- value; return true: the call waits until the send can
\* proceed
NonBlockingSendPlain ==
    /\ section = "nbsend"
    /\ mainpc = "call"
    /\ gpc[1] = "recv" \/ Len(ch4) < n
    /\ IF gpc[1] = "recv"
         THEN /\ got' = <<args[1]>>
              /\ gpc' = [gpc EXCEPT ![1] = "done"]
              /\ ch4' = ch4
         ELSE /\ ch4' = Append(ch4, args[1])
              /\ UNCHANGED <<got, gpc>>
    /\ ret' = [fn |-> "nonBlockingSend", result |-> TRUE]
    /\ mainpc' = "done"
    /\ UNCHANGED sendFrame

\* select { case ch <- value: return true; default: return false }: the send
\* case is ready when a receiver waits (the value is handed over) or the
\* buffer has room (the value is queued); otherwise default runs
NonBlockingSend ==
    /\ section = "nbsend"
    /\ mainpc = "call"
    /\ IF gpc[1] = "recv"
         THEN /\ got' = <<args[1]>>
              /\ gpc' = [gpc EXCEPT ![1] = "done"]
              /\ ch4' = ch4
              /\ ret' = [fn |-> "nonBlockingSend", result |-> TRUE]
         ELSE IF Len(ch4) < n
           THEN /\ ch4' = Append(ch4, args[1])
                /\ ret' = [fn |-> "nonBlockingSend", result |-> TRUE]
                /\ UNCHANGED <<got, gpc>>
           ELSE /\ ret' = [fn |-> "nonBlockingSend", result |-> FALSE]
                /\ UNCHANGED <<got, gpc, ch4>>
    /\ mainpc' = "done"
    /\ UNCHANGED sendFrame

\* ---------------------------------------------------------------------------
\* retryOperation(operation, maxRetries) of the error-handling demo: n is
\* maxRetries, mi the loop variable i, and args[k] tells whether the k-th call
\* of operation fails (the demo's operation always fails, maxRetries is 3).
\* ---------------------------------------------------------------------------

\* what retryOperation leaves alone
retryFrame == <<patVars, chanVars, wg, got, ch4, ok, mu, value, gpc, gtmp,
                now, timer, readers, data, panicking>>

\* var err error; for i := 0; ...
RetryEnter ==
    /\ section = "retry"
    /\ mainpc = "enter"
    /\ mi' = 0
    /\ err' = 0
    /\ mainpc' = "loop"
    /\ UNCHANGED <<ret, calls, args, retryFrame>>

\* for i := 0; i < maxRetries; i++, and the return after the loop:
\* fmt.Errorf("operation failed after %d retries: %w", maxRetries, err)
RetryLoop ==
    /\ section = "retry"
    /\ mainpc = "loop"
    /\ IF mi < n
         THEN /\ mainpc' = "op"
              /\ UNCHANGED ret
         ELSE /\ mainpc' = "done"
              /\ ret' = [fn |-> "retryOperation", err |-> "failed",
                         retries |-> n, wraps |-> err]
    /\ UNCHANGED <<mi, calls, err, args, retryFrame>>

\* err = operation()
RetryCall ==
    /\ section = "retry"
    /\ mainpc = "op"
    /\ calls' = calls + 1
    /\ err' = IF args[calls + 1] THEN calls + 1 ELSE 0
    /\ mainpc' = "check"
    /\ UNCHANGED <<mi, ret, args, retryFrame>>

\* a loop without the return on success
RetryCheckNoStop ==
    /\ section = "retry"
    /\ mainpc = "check"
    /\ IF mi < n - 1
         THEN mainpc' = "sleep" /\ mi' = mi
         ELSE mainpc' = "loop" /\ mi' = mi + 1
    /\ UNCHANGED <<ret, calls, err, args, retryFrame>>

\* if err == nil { return nil }; if i < maxRetries-1 { time.Sleep(...) }
RetryCheck ==
    /\ section = "retry"
    /\ mainpc = "check"
    /\ IF err = 0
         THEN /\ mainpc' = "done"
              /\ ret' = [fn |-> "retryOperation", err |-> "nil",
                         retries |-> n, wraps |-> 0]
              /\ mi' = mi
         ELSE /\ IF mi < n - 1
                   THEN mainpc' = "sleep" /\ mi' = mi
                   ELSE mainpc' = "loop" /\ mi' = mi + 1
              /\ UNCHANGED ret
    /\ UNCHANGED <<calls, err, args, retryFrame>>

\* time.Sleep(time.Duration(i+1) * time.Millisecond) is over; i++
RetrySleep ==
    /\ section = "retry"
    /\ mainpc = "sleep"
    /\ mi' = mi + 1
    /\ mainpc' = "loop"
    /\ UNCHANGED <<ret, calls, err, args, retryFrame>>

\* ---------------------------------------------------------------------------
\* safeDivide (part_006) and safeOperation (part_002): a body that may panic
\* under a deferred function that recovers.  m = 0 runs safeDivide(a, b),
\* m = 1 runs safeOperation(); ret holds the named results result and err.
\* ---------------------------------------------------------------------------

\* what safeDivide and safeOperation leave alone
safeFrame == <<patVars, mi, closes, wg, got, ch4, ok, mu, value, gpc, gtmp,
               args, now, timer, readers, data, calls, err>>

\* the call: the named results start as zero values, the defer is registered
SafeEnter ==
    /\ section = "safediv"
    /\ mainpc = "call"
    /\ ret' = [result |-> 0, err |-> "nil"]
    /\ mainpc' = "body"
    /\ UNCHANGED <<panicked, panicking, safeFrame>>

\* safeDivide: if b == 0 { panic(...) }; result = a / b; return result, nil
\* safeOperation: result = riskyOperation(), which panics
SafeBody ==
    /\ section = "safediv"
    /\ mainpc = "body"
    /\ IF m = 1
         THEN panicking' = "risky operation failed" /\ ret' = ret
         ELSE IF args[2] = 0
           THEN panicking' = "division by zero" /\ ret' = ret
           ELSE /\ panicking' = panicking
                /\ ret' = [result |-> TruncDiv(args[1], args[2]),
                           err |-> "nil"]
    /\ mainpc' = "defer"
    /\ UNCHANGED <<panicked, safeFrame>>

\* a deferred function that does not call recover: the panic goes on into
\* the caller
SafeDeferredNoRecover ==
    /\ section = "safediv"
    /\ mainpc = "defer"
    /\ panicked' = (panicking # "nil")
    /\ mainpc' = "returned"
    /\ UNCHANGED <<ret, panicking, safeFrame>>

\* defer func() { if r := recover(); r != nil { err = fmt.Errorf(...) } }():
\* runs when the body returns or panics; recover stops the panic
SafeDeferred ==
    /\ section = "safediv"
    /\ mainpc = "defer"
    /\ IF panicking # "nil"
         THEN /\ ret' = [ret EXCEPT !.err = "panic occurred"]
              /\ panicking' = "nil"
         ELSE UNCHANGED <<ret, panicking>>
    /\ mainpc' = "returned"
    /\ UNCHANGED <<panicked, safeFrame>>

\* ---------------------------------------------------------------------------
\* main and demonstratePanicRecover of the error-handling demo (part_002):
\* got is the trace of the sections entered and the lines printed; args is the
\* argument pair of the call dividePanic(10, 0) (the divisor is an input).
\* ---------------------------------------------------------------------------

\* what demonstratePanicRecover leaves alone
panicFrame == <<patVars, mi, closes, wg, ch4, ok, mu, value, gtmp, args, ret,
                now, timer, readers, data, calls, err>>

\* main: demonstratePanicRecover() is called; it registers its deferred
\* function and reaches the call of dividePanic
PanicDemoEnter ==
    /\ section = "panicrec"
    /\ mainpc = "main"
    /\ got' = Append(got, "demonstratePanicRecover")
    /\ mainpc' = "dividePanic"
    /\ UNCHANGED <<gpc, panicked, panicking, panicFrame>>

\* dividePanic(a, b): if b == 0 { panic("division by zero") }; return a / b
\* (the caller drops the result)
DividePanic ==
    /\ section = "panicrec"
    /\ mainpc = "dividePanic"
    /\ IF args[2] = 0
         THEN /\ panicking' = "division by zero"
              /\ mainpc' = "deferred"
         ELSE /\ panicking' = panicking
              /\ mainpc' = "goroutine"
    /\ UNCHANGED <<got, gpc, panicked, panicFrame>>

\* fmt.Println("   Panic in goroutine:"); go func() {...}()
PanicDemoGoroutine ==
    /\ section = "panicrec"
    /\ mainpc = "goroutine"
    /\ got' = Append(got, "Panic in goroutine")
    /\ gpc' = [gpc EXCEPT ![1] = "start"]
    /\ mainpc' = "sleep"
    /\ UNCHANGED <<panicked, panicking, panicFrame>>

\* the goroutine: panic("goroutine panic"), caught by its own deferred recover
GoroutineRecovers ==
    /\ section = "panicrec"
    /\ gpc[1] = "start"
    /\ mainpc # "done"
    /\ got' = Append(got, "Goroutine recovered from panic")
    /\ gpc' = [gpc EXCEPT ![1] = "done"]
    /\ UNCHANGED <<mainpc, panicked, panicking, panicFrame>>

\* time.Sleep(100 * time.Millisecond) is over; the function returns
PanicDemoSleep ==
    /\ section = "panicrec"
    /\ mainpc = "sleep"
    /\ mainpc' = "deferred"
    /\ UNCHANGED <<got, gpc, panicked, panicking, panicFrame>>

\* a deferred function that does not call recover: the panic reaches main and
\* the program crashes
PanicDemoDeferredNoRecover ==
    /\ section = "panicrec"
    /\ mainpc = "deferred"
    /\ IF panicking # "nil"
         THEN panicked' = TRUE /\ mainpc' = "crashed"
         ELSE panicked' = panicked /\ mainpc' = "common"
    /\ UNCHANGED <<got, gpc, panicking, panicFrame>>

\* defer func() { if r := recover(); r != nil { fmt.Printf("Recovered from
\* panic") } }(): the panic stops, demonstratePanicRecover returns to main
PanicDemoDeferred ==
    /\ section = "panicrec"
    /\ mainpc = "deferred"
    /\ IF panicking # "nil"
         THEN /\ got' = Append(got, "Recovered from panic")
              /\ panicking' = "nil"
         ELSE UNCHANGED <<got, panicking>>
    /\ mainpc' = "common"
    /\ UNCHANGED <<gpc, panicked, panicFrame>>

\* main: demonstrateCommonPatterns()
PanicDemoCommon ==
    /\ section = "panicrec"
    /\ mainpc = "common"
    /\ got' = Append(got, "demonstrateCommonPatterns")
    /\ mainpc' = "done"
    /\ UNCHANGED <<gpc, panicked, panicking, panicFrame>>

\* ---------------------------------------------------------------------------
\* demonstrateSynchronization, "RWMutex": n goroutines call safeMap.Get("key"),
\* one calls safeMap.Set("key", 42), main waits for all of them.  mu is the
\* holder of sm.mu's write lock (0 when free), readers the holders of its read
\* lock; a Lock that has been called and is waiting keeps new readers out.
\* ---------------------------------------------------------------------------

Writer == NumReaders + 1

\* what the RWMutex demo leaves alone
rwFrame == <<patVars, chanVars, got, ch4, ok, value, args, ret, now, timer,
             calls, err, panicking>>

\* a read lock that is granted whatever the state of the write lock
CanRLockAlways == TRUE

\* sm.mu.RLock() can return: no writer holds the lock or waits for it
CanRLock == mu = 0 /\ gpc[Writer] # "pending"

\* the two loops of wg.Add(1); go func() {...}(): n readers, then the writer
RWSpawn ==
    /\ section = "rwmutex"
    /\ mainpc = "spawn"
    /\ IF mi <= n
         THEN /\ wg' = wg + 1
              /\ gpc' = [gpc EXCEPT ![mi] = "rlock"]
              /\ mi' = mi + 1
              /\ mainpc' = mainpc
         ELSE /\ wg' = wg + 1
              /\ gpc' = [gpc EXCEPT ![Writer] = "lock"]
              /\ mi' = mi
              /\ mainpc' = "wait"
    /\ UNCHANGED <<mu, readers, data, gtmp, rwFrame>>

\* Get: sm.mu.RLock()
GetRLock(g) ==
    /\ section = "rwmutex"
    /\ g # Writer /\ gpc[g] = "rlock"
    /\ CanRLock
    /\ readers' = readers \cup {g}
    /\ gpc' = [gpc EXCEPT ![g] = "read"]
    /\ UNCHANGED <<mainVars, wg, mu, data, gtmp, rwFrame>>

\* Get: value, ok := sm.data[key]
GetRead(g) ==
    /\ section = "rwmutex"
    /\ g # Writer /\ gpc[g] = "read"
    /\ gtmp' = [gtmp EXCEPT ![g] = IF data = <<>> THEN <<0, FALSE>>
                                                  ELSE <<data[1], TRUE>>]
    /\ gpc' = [gpc EXCEPT ![g] = "runlock"]
    /\ UNCHANGED <<mainVars, wg, mu, readers, data, rwFrame>>

\* Get returns: the deferred sm.mu.RUnlock()
GetRUnlock(g) ==
    /\ section = "rwmutex"
    /\ g # Writer /\ gpc[g] = "runlock"
    /\ readers' = readers \ {g}
    /\ gpc' = [gpc EXCEPT ![g] = "return"]
    /\ UNCHANGED <<mainVars, wg, mu, data, gtmp, rwFrame>>

\* Set: sm.mu.Lock() is called: from now on new readers are kept out
SetLockCall ==
    /\ section = "rwmutex"
    /\ gpc[Writer] = "lock"
    /\ gpc' = [gpc EXCEPT ![Writer] = "pending"]
    /\ UNCHANGED <<mainVars, wg, mu, readers, data, gtmp, rwFrame>>

\* Set: sm.mu.Lock() returns: no reader and no writer holds the lock
SetLock ==
    /\ section = "rwmutex"
    /\ gpc[Writer] = "pending"
    /\ mu = 0 /\ readers = {}
    /\ mu' = Writer
    /\ gpc' = [gpc EXCEPT ![Writer] = "write"]
    /\ UNCHANGED <<mainVars, wg, readers, data, gtmp, rwFrame>>

\* Set: sm.data[key] = value -- the map is being modified (a concurrent read
\* would find it in an undefined state, here the entry -1)
SetWriteBegin ==
    /\ section = "rwmutex"
    /\ gpc[Writer] = "write"
    /\ data' = <<-1>>
    /\ gpc' = [gpc EXCEPT ![Writer] = "store"]
    /\ UNCHANGED <<mainVars, wg, mu, readers, gtmp, rwFrame>>

\* Set: sm.data[key] = value -- the entry is in place
SetWriteEnd ==
    /\ section = "rwmutex"
    /\ gpc[Writer] = "store"
    /\ data' = <<42>>
    /\ gpc' = [gpc EXCEPT ![Writer] = "unlock"]
    /\ UNCHANGED <<mainVars, wg, mu, readers, gtmp, rwFrame>>

\* Set returns: the deferred sm.mu.Unlock()
SetUnlock ==
    /\ section = "rwmutex"
    /\ gpc[Writer] = "unlock"
    /\ mu' = 0
    /\ gpc' = [gpc EXCEPT ![Writer] = "return"]
    /\ UNCHANGED <<mainVars, wg, readers, data, gtmp, rwFrame>>

\* a reader or the writer returns: the deferred wg.Done()
RWDone(g) ==
    /\ section = "rwmutex"
    /\ gpc[g] = "return"
    /\ wg' = wg - 1
    /\ gpc' = [gpc EXCEPT ![g] = "done"]
    /\ UNCHANGED <<mainVars, mu, readers, data, gtmp, rwFrame>>

\* wg.Wait() returns; "RWMutex operations completed" is printed
RWWait ==
    /\ section = "rwmutex"
    /\ mainpc = "wait"
    /\ WaitReturns
    /\ mainpc' = "done"
    /\ UNCHANGED <<mi, wg, gpc, mu, readers, data, gtmp, rwFrame>>

InitBase ==
    /\ mi = 1
    /\ closes = [c \in Chans |-> 0]
    /\ panicked = FALSE
    /\ jobs = <<>>
    /\ results = <<>>
    /\ wpc = [w \in PoolSlots |-> "idle"]
    /\ wval = [w \in PoolSlots |-> 0]
    /\ sunk = <<>>
    /\ prodpc = "idle"
    /\ prodi = 0
    /\ sqpc = "idle"
    /\ sqval = 0
    /\ procpc = [k \in Sources |-> "idle"]
    /\ procval = [k \in Sources |-> 0]
    /\ emi = [s \in Sources |-> 1]
    /\ wg = 0
    /\ fpc = [f \in Sources |-> "idle"]
    /\ fval = [f \in Sources |-> 0]
    /\ fsrc = [f \in Sources |-> 0]
    /\ cpc = "idle"
    /\ taken = [w \in PoolSlots \cup Sources |-> <<>>]
    /\ dequeued = <<>>
    /\ emitted = [s \in Sources |-> <<>>]
    /\ recv = [s \in Sources |-> <<>>]
    /\ got = <<>>
    /\ ch4 = <<>>
    /\ ok = "unset"
    /\ mu = 0
    /\ value = 0
    /\ gpc = [g \in Goroutines |-> "idle"]
    /\ gtmp = [g \in Goroutines |-> 0]
    /\ ret = <<>>
    /\ now = 0
    /\ timer = [armed |-> FALSE, deadline |-> 0, fired |-> FALSE]
    /\ readers = {}
    /\ data = <<>>
    /\ calls = 0
    /\ err = 0
    /\ panicking = "nil"

InitCommon ==
    /\ InitBase
    /\ args = <<>>

InitPool ==
    /\ section = "pool"
    /\ n \in 1..NumWorkers
    /\ m \in 0..NumJobs
    /\ srcLen = [s \in Sources |-> 0]
    /\ mainpc = "start"
    /\ empc = [s \in Sources |-> "idle"]
    /\ InitCommon

InitPipeline ==
    /\ section = "pipeline"
    /\ n = 1
    /\ m \in 0..NumNumbers
    /\ srcLen = [s \in Sources |-> 0]
    /\ mainpc = "start"
    /\ empc = [s \in Sources |-> "idle"]
    /\ InitCommon

InitFan ==
    /\ section = "fan"
    /\ n = NumProcess
    /\ m \in 0..NumInput
    /\ srcLen = [s \in Sources |-> 0]
    /\ mainpc = "start"
    /\ empc = [s \in Sources |-> "idle"]
    /\ InitCommon

\* merge alone: main calls merge on n channels whose streams are already running
InitMerge ==
    /\ section = "merge"
    /\ n \in 0..NumProcess
    /\ m = 0
    /\ srcLen \in [Sources -> 0..MaxSrcLen]
    /\ \A s \in Sources : s > n => srcLen[s] = 0
    /\ mainpc = "merge"
    /\ empc = [s \in Sources |-> IF s <= n THEN EmitterAt(s, 1) ELSE "idle"]
    /\ InitCommon

\* the number of values sent before the close is an input (the demo sends 3)
InitClosed ==
    /\ section = "closed"
    /\ n = 0
    /\ m \in 0..Ch4Cap
    /\ srcLen = [s \in Sources |-> 0]
    /\ mainpc = "send"
    /\ empc = [s \in Sources |-> "idle"]
    /\ InitCommon

\* the number of incrementing goroutines is an input (the demo starts 10)
InitMutex ==
    /\ section = "mutex"
    /\ n \in 1..NumIncr
    /\ m = 0
    /\ srcLen = [s \in Sources |-> 0]
    /\ mainpc = "spawn"
    /\ empc = [s \in Sources |-> "idle"]
    /\ InitCommon

\* m selects the goroutine body; the number of goroutines is an input (both
\* demos start 3)
InitSync ==
    /\ section = "waitgroup"
    /\ n \in 1..NumSync
    /\ m \in {0, 1}
    /\ srcLen = [s \in Sources |-> 0]
    /\ mainpc = "spawn"
    /\ empc = [s \in Sources |-> "idle"]
    /\ InitCommon

InitDivide ==
    /\ section = "divide"
    /\ n = 0 /\ m = 0
    /\ srcLen = [s \in Sources |-> 0]
    /\ mainpc = "call"
    /\ empc = [s \in Sources |-> "idle"]
    /\ InitBase
    /\ args \in (-MaxDividend..MaxDividend) \X (-MaxDivisor..MaxDivisor)

InitUser ==
    /\ section = "user"
    /\ n = 0 /\ m = 0
    /\ srcLen = [s \in Sources |-> 0]
    /\ mainpc = "call"
    /\ empc = [s \in Sources |-> "idle"]
    /\ InitBase
    /\ args \in [ID : {0, 1}, Name : {"", "Alice", "Bob"},
                 Age : -MaxAge..MaxAge]

\* the sender's sleep is an input (the demo sleeps SleepDur), and so is
\* whether there is a sender at all
InitTimeout ==
    /\ section = "timeout"
    /\ n \in {0, 1}
    /\ m \in 0..MaxSleep
    /\ (n = 0 => m = 0)
    /\ srcLen = [s \in Sources |-> 0]
    /\ mainpc = "go"
    /\ empc = [s \in Sources |-> "idle"]
    /\ InitCommon

\* the channel's capacity and the value sent are inputs (the demo: 0 and 42)
InitSend ==
    /\ section = "nbsend"
    /\ n \in 0..MaxCap
    /\ m = 0
    /\ srcLen = [s \in Sources |-> 0]
    /\ mainpc = "call"
    /\ empc = [s \in Sources |-> "idle"]
    /\ InitBase
    /\ args \in {<<42>>, <<0>>}

InitRetry ==
    /\ section = "retry"
    /\ n \in -1..MaxRetries
    /\ m = 0
    /\ srcLen = [s \in Sources |-> 0]
    /\ mainpc = "enter"
    /\ empc = [s \in Sources |-> "idle"]
    /\ InitBase
    /\ args \in [1..MaxRetries -> BOOLEAN]

InitSafe ==
    /\ section = "safediv"
    /\ n = 0
    /\ m \in {0, 1}
    /\ srcLen = [s \in Sources |-> 0]
    /\ mainpc = "call"
    /\ empc = [s \in Sources |-> "idle"]
    /\ InitBase
    /\ args \in (-MaxDividend..MaxDividend) \X (-MaxDivisor..MaxDivisor)
    /\ (m = 1 => args = <<0, 0>>)

InitPanicDemo ==
    /\ section = "panicrec"
    /\ n = 0 /\ m = 0
    /\ srcLen = [s \in Sources |-> 0]
    /\ mainpc = "main"
    /\ empc = [s \in Sources |-> "idle"]
    /\ InitBase
    /\ args \in {10} \X (-MaxDivisor..MaxDivisor)

\* the number of readers is an input (the demo starts 5)
InitRW ==
    /\ section = "rwmutex"
    /\ n \in 1..NumReaders
    /\ m = 0
    /\ srcLen = [s \in Sources |-> 0]
    /\ mainpc = "spawn"
    /\ empc = [s \in Sources |-> "idle"]
    /\ InitCommon

Init ==
    \/ InitPool \/ InitPipeline \/ InitFan \/ InitMerge
    \/ InitClosed

NextPool ==
    \/ PoolStartWorker
    \/ PoolSendJob
    \/ PoolCloseJobs
    \/ PoolCollect
    \/ \E w \in PoolSlots : WorkerRecv(w)
    \/ \E w \in PoolSlots : WorkerSend(w)
    \/ \E w \in PoolSlots : WorkerExit(w)

NextPipeline ==
    \/ PipeStartProducer
    \/ PipeStartSquarer
    \/ PipeCloseNumbers
    \/ SquarerRecv
    \/ SquarerClose
    \/ PipePrint
    \/ PipeEnd

NextFan ==
    \/ FanStartProcess
    \/ FanStartProducer
    \/ FanCloseInput
    \/ \E k \in Sources : ProcessRecv(k)
    \/ \E k \in Sources : ProcessExit(k)

NextMerge ==
    \/ \E s \in Sources : EmitterClose(s)
    \/ MergeStartForwarder
    \/ MergeStartCloser
    \/ \E f \in Sources : ForwarderRecv(f)
    \/ \E f \in Sources : ForwarderExit(f)
    \/ CloserClose
    \/ \E f \in Sources : ConsumerRecv(f)
    \/ ConsumerEnd

NextClosed ==
    \/ ClosedSend
    \/ ClosedClose
    \/ ClosedRangeRecv
    \/ ClosedRangeEnd
    \/ ClosedCheck

Next ==
    \/ NextPool \/ NextPipeline \/ NextFan \/ NextMerge
    \/ NextClosed

Spec == Init /\ [][Next]_vars

NextMutex ==
    \/ MutexSpawn
    \/ \E g \in Goroutines : IncLock(g)
    \/ \E g \in Goroutines : IncRead(g)
    \/ \E g \in Goroutines : IncWrite(g)
    \/ \E g \in Goroutines : IncUnlock(g)
    \/ \E g \in Goroutines : IncDone(g)
    \/ MutexWait
    \/ CounterValue

\* The Mutex demo on its own.
MutexSpec == InitMutex /\ [][NextMutex]_vars

NextSync ==
    \/ SyncSpawn
    \/ \E g \in Goroutines : WorkerBegin(g)
    \/ \E g \in Goroutines : WorkerWake(g)
    \/ \E g \in Goroutines : WorkerDone(g)
    \/ SyncWait

\* The WaitGroup demos under a fair scheduler: a runnable goroutine is
\* eventually run and a Sleep eventually ends.
SyncSpec == InitSync /\ [][NextSync]_vars /\ WF_vars(NextSync)

NextDivide ==
    \/ CallDivide
    \/ CallDivideInt

NextUser == CallProcessUser

NextSend ==
    \/ EnvSend
    \/ EnvRecvWait
    \/ NonBlockingSend

NextRetry ==
    \/ RetryEnter
    \/ RetryLoop
    \/ RetryCall
    \/ RetryCheck
    \/ RetrySleep

NextSafe ==
    \/ SafeEnter
    \/ SafeBody
    \/ SafeDeferred

NextPanicDemo ==
    \/ PanicDemoEnter
    \/ DividePanic
    \/ PanicDemoGoroutine
    \/ GoroutineRecovers
    \/ PanicDemoSleep
    \/ PanicDemoDeferred
    \/ PanicDemoCommon

\* The pure functions, each called once on every argument within the bounds.
NextCall ==
    \/ NextDivide \/ NextUser \/ NextSend \/ NextRetry \/ NextSafe
    \/ NextPanicDemo

CallSpec ==
    /\ \/ InitDivide \/ InitUser \/ InitSend \/ InitRetry \/ InitSafe
       \/ InitPanicDemo
    /\ [][NextCall]_vars

NextTimeout ==
    \/ Tick
    \/ TimeoutSpawn
    \/ SenderSleep
    \/ SenderWake
    \/ TimeoutArm
    \/ TimerFire
    \/ SelectRecv
    \/ SelectTimeout

\* The timeout demo under a fair scheduler and a running clock: time passes,
\* a due timer fires, a runnable goroutine runs.
TimeoutSpec ==
    InitTimeout /\ [][NextTimeout]_vars /\ WF_vars(NextTimeout)

NextRW ==
    \/ RWSpawn
    \/ \E g \in Goroutines : GetRLock(g)
    \/ \E g \in Goroutines : GetRead(g)
    \/ \E g \in Goroutines : GetRUnlock(g)
    \/ SetLockCall
    \/ SetLock
    \/ SetWriteBegin
    \/ SetWriteEnd
    \/ SetUnlock
    \/ \E g \in Goroutines : RWDone(g)
    \/ RWWait

\* The RWMutex demo on its own.
RWSpec == InitRW /\ [][NextRW]_vars

\* The worker pool and merge under a fair scheduler.  The scheduler runs some
\* goroutine whenever one is runnable; both are terminating programs, so this
\* is all the progress their goroutines need.
NextPoolMerge == NextPool \/ NextMerge

FairSpec ==
    /\ InitPool \/ InitMerge
    /\ [][NextPoolMerge]_vars
    /\ WF_vars(NextPoolMerge)

\* ---- derived state -------------------------------------------------------------------

RECURSIVE SumLen(_, _)
SumLen(f, S) ==
    IF S = {} THEN 0
    ELSE LET x == CHOOSE y \in S : TRUE IN Len(f[x]) + SumLen(f, S \ {x})

\* number of occurrences of v in sequence q
Occ(v, q) == Cardinality({i \in DOMAIN q : q[i] = v})

\* the index of v in a sequence without repetitions
Pos(v, q) == CHOOSE i \in DOMAIN q : q[i] = v

Workers == 1..n
Forwarders == 1..n
InMerge == section \in {"fan", "merge"}
AllWorkersExited == \A w \in Workers : wpc[w] = "done"
AllForwardersExited == \A f \in Forwarders : fpc[f] = "done"
InHand == Cardinality({w \in Workers : wpc[w] = "send"})
JobsSent == IF mainpc = "start" THEN 0 ELSE IF mainpc = "send" THEN mi - 1 ELSE m
AllRecv == recv[1] \o recv[2] \o recv[3]
Held(s) == Cardinality({f \in Forwarders : fpc[f] = "send" /\ fsrc[f] = s})

\* ---- claims -------------------------------------------------------------------------

\* The fan-out/fan-in demo under a fair scheduler: every goroutine of it that
\* can take a step eventually takes one.
NextFanIn ==
    \/ NextFan
    \/ MergeStartForwarder
    \/ MergeStartCloser
    \/ \E f \in Sources : ForwarderRecv(f)
    \/ \E f \in Sources : ForwarderExit(f)
    \/ CloserClose
    \/ \E f \in Sources : ConsumerRecv(f)
    \/ ConsumerEnd

FairFanSpec ==
    /\ InitFan
    /\ [][NextFanIn]_vars
    /\ WF_vars(NextFanIn)

\* the fan-out/fan-in demo has ended: every goroutine of it has exited
FanTerminated ==
    /\ mainpc = "done"
    /\ prodpc = "done"
    /\ \A k \in Sources : procpc[k] = "done"
    /\ AllForwardersExited
    /\ cpc = "done"

C2_MergeCloseOnce ==
    InMerge =>
        /\ closes["output"] <= 1
        /\ (IsClosed("output") => AllForwardersExited)
        /\ ~(IsClosed("output") /\ SenderBlocked("output"))
        /\ ~panicked
        /\ (cpc = "done" <=> closes["output"] = 1)
        /\ (mainpc = "done" => closes["output"] = 1)

C2_Witness ==
    /\ section = "fan" /\ m = 6
    /\ mainpc = "done" /\ closes["output"] = 1
    /\ AllForwardersExited /\ Len(AllRecv) = 6

C4_NoLoss ==
    section = "pool" =>
        /\ Len(jobs) + InHand + Len(sunk) = JobsSent
        /\ Len(got) + Len(results) = Len(sunk)
        /\ (AllWorkersExited => Len(sunk) = m)
        /\ (mainpc = "done" => Len(got) = m)

C4_Witness ==
    /\ section = "pool" /\ n = 3 /\ m = 5
    /\ AllWorkersExited /\ mainpc = "done"
    /\ Len(sunk) = 5 /\ Len(got) = 5

\* C5 -- no double delivery: every item sent on the shared jobs / input queue
\* is received by at most one worker and at most once; the per-worker counts
\* sum to the number of items dequeued, which is m once the queue is closed
\* and all workers have exited.
C5_NoDoubleDelivery ==
    /\ section \in {"pool", "fan"} =>
          \A x \in 1..m : Occ(x, taken[1] \o taken[2] \o taken[3]) <= 1
    /\ section = "pool" =>
          /\ SumLen(taken, Workers) = JobsSent - Len(jobs)
          /\ (AllWorkersExited => SumLen(taken, Workers) = m)
    /\ section = "fan" =>
          /\ prodpc # "idle" => SumLen(taken, Sources) = prodi - 1
          /\ ((\A k \in Sources : procpc[k] = "done")
                 => SumLen(taken, Sources) = m)

C5_Witness ==
    /\ section = "pool" /\ n = 3 /\ m = 5
    /\ AllWorkersExited
    /\ \A w \in Workers : Len(taken[w]) >= 1
    /\ SumLen(taken, Workers) = 5

\* C6 -- fan-out/fan-in with transform square: when the consumer's range over
\* the merged stream has ended it has received exactly m values, each x * x
\* for x in 1..m exactly once, and the stream is closed; for the items
\* 1..5 the received values are exactly 1, 4, 9, 16, 25.
C6_FanOutSquares ==
    (section = "fan" /\ mainpc = "done") =>
        /\ Len(AllRecv) = m
        /\ \A x \in 1..m : Occ(x * x, AllRecv) = 1
        /\ IsClosed("output")
        /\ (m = 5 => {AllRecv[i] : i \in DOMAIN AllRecv} = {1, 4, 9, 16, 25})

C6_Witness ==
    /\ section = "fan" /\ m = 5 /\ mainpc = "done"
    /\ Len(AllRecv) = 5
    /\ \A k \in Sources : Len(taken[k]) >= 1

\* C7 -- merge forwards every value of every source exactly once: a value
\* sent on a source is in a forwarder's hand or has been received by the
\* consumer; when the consumer's range has ended it has received, from each
\* source, as many values as the source emitted (srcLen[s] for a stream that
\* emits srcLen[s] values and closes), each of them once, and the merged
\* stream is closed.
C7_MergeForwardsAll ==
    InMerge =>
        /\ \A s \in Sources : Len(recv[s]) + Held(s) = Len(emitted[s])
        /\ mainpc = "done" =>
              /\ \A s \in Sources : Len(recv[s]) = Len(emitted[s])
              /\ \A s \in Sources : \A i \in DOMAIN emitted[s] :
                    Occ(emitted[s][i], AllRecv) = 1
              /\ closes["output"] = 1
              /\ section = "merge" =>
                    /\ \A s \in Sources : Len(recv[s]) = srcLen[s]
                    /\ \A s \in Sources : \A k \in 1..srcLen[s] :
                          Occ(10 * s + k, AllRecv) = 1
                    /\ Len(AllRecv) = srcLen[1] + srcLen[2] + srcLen[3]
              /\ section = "fan" => Len(AllRecv) = m

C7_Witness ==
    /\ section = "merge" /\ n = 3
    /\ srcLen[1] = 2 /\ srcLen[2] = 3 /\ srcLen[3] = 4
    /\ mainpc = "done" /\ Len(AllRecv) = 9

\* C8 -- per-source FIFO on the merged stream: the values the consumer has
\* received from one source were all sent on that source, and appear in the
\* order in which the source sent them.
C8_PerSourceFIFO ==
    InMerge =>
        \A s \in Sources :
            /\ \A i \in DOMAIN recv[s] : Occ(recv[s][i], emitted[s]) = 1
            /\ \A i, j \in DOMAIN recv[s] :
                  i < j => Pos(recv[s][i], emitted[s]) < Pos(recv[s][j], emitted[s])

\* two sources interleave on the merged stream, each with several values
C8_Witness ==
    /\ section = "fan"
    /\ Len(recv[1]) >= 2 /\ Len(recv[2]) >= 2 /\ Len(recv[3]) >= 1
    /\ recv[1][1] > recv[2][1] /\ recv[1][1] < recv[2][2]

\* C9 -- with a single worker between producer and consumer the results are
\* emitted in the order the items were sent: the squaring stage fed 1..m
\* emits 1, 4, 9, 16, 25 in that order, and a pool of one worker emits
\* 2, 4, 6, ... in job order.
C9_SingleWorkerOrder ==
    /\ section = "pipeline" =>
          /\ \A i \in DOMAIN got : got[i] = <<1, 4, 9, 16, 25>>[i]
          /\ (mainpc = "done" => Len(got) = m)
    /\ (section = "pool" /\ n = 1) =>
          /\ \A i \in DOMAIN sunk : sunk[i] = i + i
          /\ \A i \in DOMAIN got : got[i] = i + i

C9_Witness ==
    /\ section = "pipeline" /\ m = 5 /\ mainpc = "done"
    /\ got = <<1, 4, 9, 16, 25>>

\* C10 -- the task queue (jobs, numbers, input) is closed exactly once, by its
\* producer, and only after the last of the m items has been sent: while the
\* producer is still sending the queue is open, and nothing panics.
C10_QueueClosedAfterLastSend ==
    /\ ~panicked
    /\ closes["jobs"] <= 1 /\ closes["numbers"] <= 1 /\ closes["input"] <= 1
    /\ section = "pool" =>
          /\ IsClosed("jobs") <=> mainpc \in {"collect", "done"}
          /\ IsClosed("jobs") => JobsSent = m
    /\ section = "pipeline" =>
          /\ IsClosed("numbers") <=> prodpc = "done"
          /\ IsClosed("numbers") => prodi = m + 1
    /\ section = "fan" =>
          /\ IsClosed("input") <=> prodpc = "done"
          /\ IsClosed("input") => prodi = m + 1
          /\ prodpc = "send" => ~IsClosed("input")

C10_Witness ==
    /\ section = "pipeline" /\ m = 5
    /\ IsClosed("numbers") /\ prodi = 6 /\ closes["numbers"] = 1

C12_ClosedRangeDrains ==
    section = "closed" =>
        /\ ~panicked
        /\ (mainpc # "send" =>
               /\ closes["ch4"] = 1
               /\ got \o ch4 = [i \in 1..m |-> i])
        /\ (mainpc \in {"check", "done"} =>
               /\ got = [i \in 1..m |-> i]
               /\ ch4 = <<>>)
        /\ (mainpc = "done" => ok = "false" /\ ret = <<0>>)

C12_Witness ==
    /\ section = "closed" /\ m = 3
    /\ mainpc = "done"
    /\ got = <<1, 2, 3>> /\ ok = "false"

\* C13 -- the jobs are handed to the workers in the order the producer sent
\* them: the sequence of dequeue events across all workers, followed by what
\* is still queued, is the producer's send sequence 1, 2, ..., and each worker
\* holds the job it dequeued last; results may reach the sink in another order.
C13_DequeueInSendOrder ==
    section = "pool" =>
        /\ dequeued \o jobs = [i \in 1..JobsSent |-> i]
        /\ Len(dequeued) = SumLen(taken, PoolSlots)
        /\ \A w \in PoolSlots :
              /\ taken[w] # <<>> => Occ(taken[w][Len(taken[w])], dequeued) = 1
              /\ \A i, j \in DOMAIN taken[w] :
                    i < j => taken[w][i] < taken[w][j]

C13_Witness ==
    /\ section = "pool" /\ n = 3 /\ m = 5
    /\ dequeued = <<1, 2, 3, 4, 5>>
    /\ Len(sunk) >= 2 /\ sunk[1] > sunk[2]
    /\ \A w \in Workers : taken[w] # <<>>

\* C14 -- with the pure transforms of the program the multiset of results is
\* a function of the input alone: at every moment the results put on the sink
\* are one j + j for each job j that was dequeued and is no longer in a
\* worker's hand, whichever worker took it, so that once all workers have
\* exited the multiset is { j + j : j in 1..m } in every run; likewise the
\* process goroutines have emitted one x * x for each input x.
C14_ResultBagDetermined ==
    /\ section = "pool" =>
          /\ \A i \in DOMAIN sunk : \E j \in 1..m : sunk[i] = j + j
          /\ \A j \in 1..m :
                Occ(j + j, sunk) =
                    IF /\ Occ(j, dequeued) = 1
                       /\ \A w \in Workers : ~(wpc[w] = "send" /\ wval[w] = j)
                      THEN 1 ELSE 0
          /\ (AllWorkersExited => Len(sunk) = m)
    /\ (section = "fan" /\ \A k \in Sources : procpc[k] = "done") =>
          LET all == emitted[1] \o emitted[2] \o emitted[3] IN
          /\ Len(all) = m
          /\ \A x \in 1..m : Occ(x * x, all) = 1

C14_Witness ==
    /\ section = "pool" /\ n = 3 /\ m = 5
    /\ AllWorkersExited
    /\ taken[3] = <<1, 5>> /\ taken[1] = <<2>>
    /\ sunk = <<4, 2, 6, 10, 8>>

\* C15 -- Counter.Increment is atomic: at most one goroutine is between Lock
\* and Unlock, the counter always equals the number of goroutines that have
\* stored their increment, and after n goroutines have each called Increment
\* once and wg.Wait has returned, Value() returns exactly n (10 in the demo).
C15_CounterExact ==
    section = "mutex" =>
        LET inside == {g \in Goroutines : gpc[g] \in {"read", "write", "unlock"}}
            stored == {g \in Goroutines : gpc[g] \in {"unlock", "return", "done"}}
        IN
        /\ ~panicked
        /\ Cardinality(inside) <= 1
        /\ value = Cardinality(stored)
        /\ (mainpc \in {"value", "done"} =>
               /\ \A g \in 1..n : gpc[g] = "done"
               /\ value = n)
        /\ (mainpc = "done" => got = <<n>>)

C15_Witness ==
    /\ section = "mutex" /\ n = 10
    /\ mainpc = "done"
    /\ got = <<10>>

\* C16 -- wg.Wait() returns, and the completion line is printed, only after
\* every goroutine registered with wg.Add(1) has finished its body and called
\* Done; and once all of them have, Wait eventually returns.
C16_WaitAfterAll ==
    /\ [](section = "waitgroup" =>
             /\ ~panicked
             /\ (mainpc = "done" <=> got = <<"completed">>)
             /\ (mainpc = "done" =>
                    /\ wg = 0
                    /\ \A g \in 1..n : gpc[g] = "done"))
    /\ ((section = "waitgroup" /\ \A g \in 1..n : gpc[g] = "done")
           ~> (mainpc = "done"))

C16_Witness ==
    /\ section = "waitgroup" /\ n = 3 /\ m = 1
    /\ \A g \in 1..3 : gpc[g] = "done"
    /\ wg = 0
    /\ mainpc = "done" /\ got = <<"completed">>

\* C18 -- Divide(a, b) returns a non-nil error, and the result 0, exactly when
\* b = 0; for every b # 0 it returns the quotient a / b with a nil error
\* (Divide(10, 2) = 5, Divide(-10, 2) = -5).  The int version divide returns
\* the quotient truncated toward zero.
C18_DivideErrorIffZero ==
    (section = "divide" /\ mainpc = "done") =>
        LET a == args[1]
            b == args[2]
        IN
        /\ (ret.err # "nil") <=> (b = 0)
        /\ ret.fn = "Divide" =>
              /\ b = 0 => ret.result = <<0, 1>>
              /\ b # 0 => /\ ret.result[2] > 0
                          /\ ret.result[1] * b = a * ret.result[2]
              /\ (a = 10 /\ b = 2) => ret.result = <<5, 1>>
              /\ (a = -10 /\ b = 2) => ret.result = <<-5, 1>>
        /\ ret.fn = "divide" =>
              /\ b = 0 => ret.result = 0
              /\ b # 0 =>
                    LET r == a - ret.result * b IN
                    /\ r * a >= 0
                    /\ (IF r < 0 THEN -r ELSE r) < (IF b < 0 THEN -b ELSE b)
              /\ (a = 10 /\ b = 2) => ret.result = 5

C18_Witness ==
    /\ section = "divide" /\ mainpc = "done"
    /\ args = <<-10, 2>>
    /\ ret = [fn |-> "Divide", result |-> <<-5, 1>>, err |-> "nil"]

\* C19 -- ProcessUser(user) returns an error and the zero ProcessedUser
\* exactly when user.Age < 0; otherwise it returns a nil error and a
\* ProcessedUser with the input's Name and Age and the Status "active".
C19_ProcessUserErrorIffNegative ==
    (section = "user" /\ mainpc = "done") =>
        /\ (ret.err # "nil") <=> (args.Age < 0)
        /\ args.Age < 0 =>
              ret.result = [Name |-> "", Age |-> 0, Status |-> ""]
        /\ args.Age >= 0 =>
              /\ ret.result.Name = args.Name
              /\ ret.result.Age = args.Age
              /\ ret.result.Status = "active"

C19_Witness ==
    /\ section = "user" /\ mainpc = "done"
    /\ args.Name = "Bob" /\ args.Age = -5
    /\ ret.err = "invalid age"
    /\ ret.result = [Name |-> "", Age |-> 0, Status |-> ""]

\* C20 -- merge's completion tracker: the WaitGroup counter is never negative
\* and always equals the number of forwarders registered and not yet done;
\* every wg.Add(1) precedes the start of the closing goroutine, so from then
\* on the counter is n minus the completions; each completion lowers it by
\* exactly one and nothing else lowers it; the single close of the output
\* happens only at counter 0 with all n forwarders done, and the consumer
\* finishes only after it (idle, running, draining, done).
C20_CompletionTracker ==
    /\ [](InMerge =>
            LET launched == {f \in Sources : fpc[f] # "idle"}
                finished == {f \in Sources : fpc[f] = "done"}
            IN
            /\ wg >= 0
            /\ wg = Cardinality(launched) - Cardinality(finished)
            /\ (cpc # "idle" => Cardinality(launched) = n)
            /\ (cpc = "done" => wg = 0 /\ Cardinality(finished) = n)
            /\ closes["output"] = (IF cpc = "done" THEN 1 ELSE 0)
            /\ (mainpc = "done" => cpc = "done"))
    /\ [][InMerge =>
            /\ \A f \in Sources :
                  (fpc[f] # "done" /\ fpc'[f] = "done") => wg' = wg - 1
            /\ wg' < wg =>
                  /\ wg' = wg - 1
                  /\ Cardinality({f \in Sources :
                                     fpc[f] # "done" /\ fpc'[f] = "done"}) = 1
            /\ cpc' # cpc => wg' = wg]_vars

C20_Witness ==
    /\ section = "merge" /\ n = 3
    /\ \A s \in Sources : srcLen[s] >= 1
    /\ wg = 0 /\ AllForwardersExited
    /\ cpc = "done" /\ closes["output"] = 1
    /\ mainpc = "range"

\* C21 -- the receive guarded by a timeout never blocks for ever: the select
\* always completes, with the message (only when the sender was at its send)
\* or with the timeout branch (only when the timer had fired, not before its
\* deadline).
C21_SelectCompletes ==
    /\ [](section = "timeout" =>
            /\ (mainpc = "done" <=> got # <<>>)
            /\ (got # <<>> => got \in {<<"Hello">>, <<"Timeout!">>})
            /\ (got = <<"Hello">> => n = 1 /\ gpc[1] = "done" /\ now >= m)
            /\ (got = <<"Timeout!">> =>
                   timer.fired /\ now >= timer.deadline))
    /\ ((section = "timeout" /\ mainpc = "wait") ~> (mainpc = "done"))

C21_Witness ==
    /\ section = "timeout" /\ n = 1 /\ m = SleepDur
    /\ mainpc = "done" /\ got = <<"Timeout!">>
    /\ now = TimeoutDur

\* C28 -- whenever the timeout branch is taken, the goroutine sending "Hello"
\* never completes: it reaches its send and stays blocked there for ever, as
\* main never receives from ch4 again; it completes only if the select took
\* the receive branch.
C28_SenderLeaks ==
    /\ [](section = "timeout" =>
            /\ (got = <<"Timeout!">> => gpc[1] # "done")
            /\ (gpc[1] = "done" => got = <<"Hello">>))
    /\ ((section = "timeout" /\ n = 1 /\ got = <<"Timeout!">>)
           ~> [](gpc[1] = "send"))

C28_Witness ==
    /\ section = "timeout" /\ n = 1 /\ m = SleepDur
    /\ mainpc = "done" /\ got = <<"Timeout!">>
    /\ gpc[1] = "send" /\ now = MaxTime

\* C22 -- nonBlockingSend never blocks: whatever the state of the open
\* channel, the call can return.  It returns true exactly when a receiver is
\* waiting or the buffer has room, and then the value is delivered (handed to
\* the receiver, or queued behind what was buffered); otherwise it returns
\* false and the channel is unchanged.  On an unbuffered channel without a
\* waiting receiver it returns false.
C22_NonBlockingSend ==
    /\ []((section = "nbsend" /\ mainpc = "call") => ENABLED NonBlockingSend)
    /\ [][(section = "nbsend" /\ mainpc = "call" /\ mainpc' = "done") =>
            LET waiting == gpc[1] = "recv"
                room    == Len(ch4) < n
            IN
            /\ ret'.result = (waiting \/ room)
            /\ waiting => /\ got' = <<args[1]>> /\ gpc'[1] = "done"
                          /\ ch4' = ch4
            /\ (~waiting /\ room) =>
                          /\ ch4' = ch4 \o <<args[1]>>
                          /\ got' = got /\ gpc' = gpc
            /\ (~waiting /\ ~room) =>
                          /\ ch4' = ch4 /\ got' = got /\ gpc' = gpc
            /\ (n = 0 /\ ~waiting) => ret'.result = FALSE]_vars

C22_Witness ==
    /\ section = "nbsend" /\ n = 0 /\ args = <<42>>
    /\ mainpc = "done"
    /\ gpc[1] = "idle" /\ ch4 = <<>> /\ got = <<>>
    /\ ret.result = FALSE

\* C23 -- retryOperation calls operation at most maxRetries times and never
\* again after a call that returned nil; it returns nil as soon as a call
\* succeeds, and when all maxRetries calls fail it returns an error that wraps
\* the error of the last call; with maxRetries <= 0 operation is never called
\* and the returned error is still non-nil (it wraps nil).
C23_RetryStopsAtFirstSuccess ==
    section = "retry" =>
        LET limit == IF n > 0 THEN n ELSE 0
            good  == {k \in 1..limit : ~args[k]}
        IN
        /\ calls <= limit
        /\ \A k \in 1..(calls - 1) : args[k]
        /\ (mainpc = "done" /\ good # {}) =>
              /\ ret.err = "nil"
              /\ calls \in good
              /\ \A k \in good : calls <= k
        /\ (mainpc = "done" /\ good = {}) =>
              /\ ret.err # "nil"
              /\ calls = limit
              /\ ret.wraps = limit
              /\ ret.retries = n

C23_Witness ==
    /\ section = "retry" /\ n = 3
    /\ \A k \in 1..3 : args[k]
    /\ mainpc = "done"
    /\ calls = 3
    /\ ret.err = "failed" /\ ret.wraps = 3

\* C24 -- safeDivide never lets a panic escape to its caller: when it has
\* returned no panic is in flight; for b = 0 it returns result 0 with a
\* non-nil error, for b # 0 the quotient a / b (truncated toward zero) with a
\* nil error.  safeOperation, whose body always panics, returns a non-nil
\* error in the same way.
C24_SafeDivideRecovers ==
    /\ section = "safediv" => ~panicked
    /\ (section = "safediv" /\ mainpc = "returned") =>
          LET a == args[1]
              b == args[2]
          IN
          /\ panicking = "nil"
          /\ (m = 1 \/ b = 0) => (ret.result = 0 /\ ret.err = "panic occurred")
          /\ (m = 0 /\ b # 0) =>
                LET r == a - ret.result * b IN
                /\ ret.err = "nil"
                /\ r * a >= 0
                /\ (IF r < 0 THEN -r ELSE r) < (IF b < 0 THEN -b ELSE b)
          /\ (m = 0 /\ a = 10 /\ b = 2) => ret.result = 5

C24_Witness ==
    /\ section = "safediv" /\ m = 0
    /\ args = <<10, 0>>
    /\ mainpc = "returned"
    /\ panicking = "nil"
    /\ ret = [result |-> 0, err |-> "panic occurred"]

\* C25 -- the fan-out/fan-in demo is deadlock-free and terminates: under a
\* fair scheduler every behaviour reaches the state where the producer, the
\* three process goroutines, the three forwarders, the closer and the
\* consumer's loop have all ended; nothing panics, and at that end the
\* consumer has received exactly m values (6 in the demo) and output is
\* closed.
C25_FanTerminates ==
    /\ [](section = "fan" =>
            /\ ~panicked
            /\ (mainpc = "done" =>
                   /\ FanTerminated
                   /\ Len(AllRecv) = m
                   /\ closes["output"] = 1 /\ closes["input"] = 1))
    /\ <>(section = "fan" /\ FanTerminated)

C25_Witness ==
    /\ section = "fan" /\ m = 6
    /\ FanTerminated
    /\ Len(AllRecv) = 6 /\ IsClosed("output")
    /\ \A k \in Sources : Len(taken[k]) = 2

\* C26 -- in the worker-pool demo the buffers (capacity 10) are never full:
\* the jobs sent never exceed 5, so the producer is never blocked at a send on
\* jobs and no worker is ever blocked at a send on results; the pool always
\* reaches the state where jobs is closed and all workers have exited, though
\* the consumer only receives m results and does not wait for the workers.
C26_PoolNeverBlocks ==
    /\ [](section = "pool" =>
            /\ Len(jobs) <= NumJobs /\ NumJobs <= JobsCap
            /\ Len(results) <= NumJobs /\ NumJobs <= ResultsCap
            /\ (mainpc = "send" /\ mi <= m => Len(jobs) < JobsCap)
            /\ (\A w \in Workers :
                   wpc[w] = "send" => Len(results) < ResultsCap)
            /\ ~SenderBlocked("jobs") /\ ~SenderBlocked("results")
            /\ (AllWorkersExited => IsClosed("jobs")))
    /\ ((section = "pool") ~> (IsClosed("jobs") /\ AllWorkersExited))

C26_Witness ==
    /\ section = "pool" /\ n = 3 /\ m = 5
    /\ mainpc = "done" /\ Len(got) = 5
    /\ IsClosed("jobs")
    /\ wpc[1] = "done" /\ wpc[2] = "range" /\ wpc[3] = "range"

\* C27 -- merge called with zero source streams returns an output that never
\* carries a value and is closed exactly once, with no error and no panic: a
\* consumer ranging over it always gets to the end of its loop, having
\* received nothing.
C27_MergeZeroTerminates ==
    /\ []((section = "merge" /\ n = 0) =>
            /\ ~panicked
            /\ AllRecv = <<>>
            /\ \A s \in Sources : emitted[s] = <<>> /\ fval[s] = 0
            /\ ~SenderBlocked("output")
            /\ closes["output"] <= 1
            /\ (mainpc = "done" => closes["output"] = 1))
    /\ ((section = "merge" /\ n = 0) ~> (mainpc = "done"))

C27_Witness ==
    /\ section = "merge" /\ n = 0
    /\ mainpc = "done"
    /\ closes["output"] = 1 /\ wg = 0
    /\ \A s \in Sources : recv[s] = <<>> /\ emitted[s] = <<>>

\* C29 -- in demonstratePanicRecover the call dividePanic(10, 0) panics, the
\* deferred recover catches it and the function returns normally to main: the
\* "Panic in goroutine" section is never executed and its goroutine never
\* started, the program does not crash, main can always take its next step,
\* and it ends having run demonstrateCommonPatterns.
C29_PanicSkipsGoroutineSection ==
    (section = "panicrec" /\ args[2] = 0) =>
        /\ ~panicked
        /\ gpc[1] = "idle"
        /\ \A i \in DOMAIN got : got[i] # "Panic in goroutine"
        /\ mainpc \notin {"goroutine", "sleep", "crashed"}
        /\ (mainpc \in {"common", "done"} =>
               /\ panicking = "nil"
               /\ got[2] = "Recovered from panic")
        /\ (mainpc # "done" => ENABLED NextPanicDemo)
        /\ (mainpc = "done" =>
               got = <<"demonstratePanicRecover", "Recovered from panic",
                       "demonstrateCommonPatterns">>)

C29_Witness ==
    /\ section = "panicrec" /\ args = <<10, 0>>
    /\ mainpc = "done"
    /\ got = <<"demonstratePanicRecover", "Recovered from panic",
               "demonstrateCommonPatterns">>
    /\ gpc[1] = "idle"

\* C30 -- SafeMap's RWMutex keeps writers and readers apart: no Get holds the
\* read lock while Set holds the write lock, and only Set ever holds the write
\* lock, while several Gets may hold the read lock together; hence every Get
\* returns (0, false) or (42, true), never a map under modification, and after
\* wg.Wait the map holds key -> 42.
C30_ReadersWriterExcluded ==
    section = "rwmutex" =>
        /\ ~(readers # {} /\ mu # 0)
        /\ mu \in {0, Writer}
        /\ (mu = Writer <=> gpc[Writer] \in {"write", "store", "unlock"})
        /\ readers = {g \in 1..n : gpc[g] \in {"read", "runlock"}}
        /\ \A g \in 1..n :
              gpc[g] \in {"runlock", "return", "done"} =>
                  gtmp[g] \in {<<0, FALSE>>, <<42, TRUE>>}
        /\ (mainpc = "done" =>
               /\ data = <<42>>
               /\ wg = 0
               /\ \A g \in (1..n) \cup {Writer} : gpc[g] = "done")

C30_Witness ==
    /\ section = "rwmutex" /\ n = 5
    /\ gpc[Writer] = "done" /\ data = <<42>>
    /\ gpc[1] = "done" /\ gtmp[1] = <<0, FALSE>>
    /\ gpc[2] = "done" /\ gtmp[2] = <<0, FALSE>>
    /\ readers = {3, 4, 5}
====
